---- MODULE Spec2Model ----
(***************************************************************************)
(* LungScapeAI: the state and the handlers of the React components, as     *)
(* state machines.  Text is a sequence of one-character strings, so that   *)
(* split, trim, includes and the number regex are computed, not assumed.   *)
(* Angles are in 1/1000 rad, distances in 1/1000 scene units, landmark     *)
(* coordinates in 1/1000 of the frame.                                     *)
(***************************************************************************)
EXTENDS Integers, Sequences, FiniteSets, TLC

VARIABLES
  layers,        \* App: useState<VisualizationLayers>
  lastToggle,    \* history: the key and the layer state of the last toggleLayer call
  messages,      \* AIChatHub: useState<Message[]>
  inputValue,    \* AIChatHub: useState('')
  isTyping,      \* AIChatHub: useState(false)
  pending,       \* AIChatHub: the text captured by each setTimeout callback not yet run
  sends,         \* AIChatHub: number of handleSend calls that passed the blank check
  segments,      \* GeminiAnalysisDisplay: the finding segments the analysis prop was written from
  analysis,      \* GeminiAnalysisDisplay: the analysis prop
  rendered,      \* GeminiAnalysisDisplay: the component has rendered
  findings,      \* GeminiAnalysisDisplay: parseFindings(analysis)
  pieces,        \* GeminiAnalysisDisplay: highlightNumbers(item.body) of each finding
  geometry,      \* LungVisualizer (one per instance): the geometry its scene effect built
  activeLabel,   \* LungVisualizer (one per instance): useState<string | null>(null)
  mounted,       \* HandGestureController is mounted (isMounted, videoRef.current set)
  enabled,       \* HandGestureController: useState(false)
  loading,       \* HandGestureController: useState(false)
  status,        \* HandGestureController: useState("Initializing AI...")
  error,         \* HandGestureController: useState<string | null>(null)
  initPc,        \* init(): the await it is suspended at, or done / failed / dropped (it returned
                 \* with a landmarker it had created and did not store)
  landmarker,    \* landmarkerRef.current: null, open or closed
  srcObject,     \* videoRef.current.srcObject: a stream id, 0 for null
  liveStreams,   \* the media streams handed out by getUserMedia whose tracks are live
  acquired,      \* number of streams getUserMedia has handed out
  gumPending,    \* getUserMedia promises not yet settled
  loadPending,   \* the video element has still to fire loadeddata for srcObject
  playPending,   \* a play() promise is not yet settled
  playing,       \* the video has data and is not paused
  effectEnabled, \* the value of enabled the control-loop effect last ran with
  loopScheduled, \* animationFrameRef.current names a requestAnimationFrame(loop) callback still pending
  pendingLoops,  \* number of pending requestAnimationFrame(loop) callbacks
  sinceLast,     \* Date.now() - lastPredictionTimeRef.current in ms, counted up to the throttle
  lastGap,       \* history: what that difference was when predictWebcam was last called
  isFullscreen,  \* App: useState(false)
  controls,      \* the OrbitControls of each LungVisualizer instance, with its camera
  lastPinchDist, \* lastPinchDistRef.current, -1 for null
  lastCentroid,  \* lastCentroidRef.current, <<-1, -1>> for null
  wasDampingEnabled, \* wasDampingEnabledRef.current
  isControlling, \* isControllingRef.current
  frames,        \* number of predictWebcam calls so far
  lastGesture,   \* history: what the last processed frame showed: pinch, open or none
  stoppedSince,  \* history: stopCamera has run and no frame was processed after it
  lastOp,        \* history: the last handler that ran, and for predictWebcam its detection result
  showLanding,   \* App: useState(true)
  appState,      \* App: useState<'upload' | 'analyzing' | 'results'>
  aiAnalysis,    \* App: useState<string>('')
  uploadTimers,  \* pending setTimeout callbacks of handleUpload
  viz,           \* per LungVisualizer instance: mounted, live renderers, pending animation frame, what the last frame showed
  frameLayers,   \* history: the layers prop at the last animation frame
  apiKey,        \* geminiService: process.env.API_KEY
  calls,         \* geminiService: the calls of analyzeLungProgression and where each stands
  requests,      \* geminiService: outbound generateContent requests issued so far
  scanMounted,   \* AnalysisScreen: mounted, its effect set up and not yet cleaned up
  scanPosition,  \* AnalysisScreen: useState(0)
  detections,    \* AnalysisScreen: useState<Detection[]>([])
  phase,         \* AnalysisScreen: useState(0)
  scanInterval,  \* AnalysisScreen: the 20 ms interval is active
  timeout1,      \* AnalysisScreen: the 2000 ms timeout is pending
  timeout2,      \* AnalysisScreen: the 5500 ms timeout is pending
  detectIntervals, \* AnalysisScreen: active 400 ms intervals
  made,          \* AnalysisScreen: detections created so far
  currentStepIndex, \* LearningGuide: useState(0)
  guideLayers,   \* the layers object onLayerUpdate updates
  exits,         \* LearningGuide: calls of onExit so far
  guideToggles,  \* layer changes made by the owner while the guide is shown
  lastGuide,     \* history: the last LearningGuide step, the index and the layers before it
  currentPointId, \* AnalysisPanel: the currentPoint.id prop
  viewMode,      \* AnalysisPanel: the viewMode prop
  prevPointIdRef, \* AnalysisPanel: prevPointIdRef.current
  prevModeRef,   \* AnalysisPanel: prevModeRef.current
  panelAnalysis, \* AnalysisPanel: useState<string>(''), as the request it answers
  panelLoading,  \* AnalysisPanel: useState<boolean>(false)
  fetches        \* AnalysisPanel: the fetchAnalysis calls so far, in order, and whether each still waits

appVars     == <<layers, lastToggle>>
chatVars    == <<messages, inputValue, isTyping, pending, sends>>
displayVars == <<segments, analysis, rendered, findings, pieces>>
sceneVars   == <<geometry, activeLabel>>
cameraVars  == <<srcObject, liveStreams, acquired, gumPending, loadPending, playPending, playing>>
uiVars      == <<enabled, loading, status, error>>
loopVars    == <<loopScheduled, pendingLoops, sinceLast, lastGap>>
gestureVars == <<controls, lastPinchDist, lastCentroid, wasDampingEnabled, isControlling>>
handVars    == <<mounted, uiVars, initPc, landmarker, cameraVars, effectEnabled, loopVars,
                 isFullscreen, gestureVars, frames, lastGesture, stoppedSince, lastOp>>
flowVars    == <<showLanding, appState, aiAnalysis, uploadTimers, viz, frameLayers>>
serviceVars == <<apiKey, calls, requests>>
scanVars    == <<scanMounted, scanPosition, detections, phase, scanInterval, timeout1, timeout2,
                 detectIntervals, made>>
guideVars   == <<currentStepIndex, guideLayers, exits, guideToggles, lastGuide>>
panelVars   == <<currentPointId, viewMode, prevPointIdRef, prevModeRef, panelAnalysis, panelLoading,
                 fetches>>
unitVars    == <<serviceVars, scanVars, guideVars, panelVars>>
moreVars    == <<flowVars, unitVars>>
vars        == <<appVars, chatVars, displayVars, sceneVars, handVars, moreVars>>

(***************************************************************************)
(* Text helpers (JavaScript String semantics on character sequences).      *)
(***************************************************************************)
Upper == <<"A","B","C","D","E","F","G","H","I","J","K","L","M","N","O","P","Q","R","S","T","U","V","W","X","Y","Z">>
Lower == <<"a","b","c","d","e","f","g","h","i","j","k","l","m","n","o","p","q","r","s","t","u","v","w","x","y","z">>

LowerOf == [c \in {Upper[i] : i \in 1..Len(Upper)} |-> Lower[CHOOSE i \in 1..Len(Upper) : Upper[i] = c]]

ToLowerChar(c) == IF c \in DOMAIN LowerOf THEN LowerOf[c] ELSE c

\* String.prototype.toLowerCase
ToLowerCase(s) == [i \in 1..Len(s) |-> ToLowerChar(s[i])]

\* sep occurs in s at position i (1-based)
OccursAt(s, sep, i) ==
  /\ i >= 1
  /\ i + Len(sep) - 1 <= Len(s)
  /\ \A j \in 1..Len(sep) : s[i + j - 1] = sep[j]

\* String.prototype.includes
Includes(s, sub) == \E i \in 1..(Len(s) - Len(sub) + 1) : OccursAt(s, sub, i)

IsWhite(c) == c \in {" ", "\n", "\t"}

\* no trimming: the text as given
TrimNothing(s) == s

\* String.prototype.trim
Trim(s) ==
  IF \A i \in 1..Len(s) : IsWhite(s[i]) THEN <<>>
  ELSE LET a == CHOOSE i \in 1..Len(s) : ~IsWhite(s[i]) /\ \A j \in 1..(i-1) : IsWhite(s[j])
           b == CHOOSE i \in 1..Len(s) : ~IsWhite(s[i]) /\ \A j \in (i+1)..Len(s) : IsWhite(s[j])
       IN SubSeq(s, a, b)

(***************************************************************************)
(* App: the layer toggles.                                                 *)
(***************************************************************************)
LayerKeys == {"leftLung", "rightLung", "lobes", "bronchi", "bronchioles", "alveoli",
              "vasculature", "pleura", "airflow", "fibrosisMap", "motion"}

InitialLayers ==
  [k \in LayerKeys |-> k \notin {"lobes", "bronchioles", "fibrosisMap"}]

\* a toggle that rebuilds the object from the key alone, losing the spread of prev
ToggledNoSpread(prev, key) == [k \in LayerKeys |-> IF k = key THEN ~prev[k] ELSE FALSE]

\* prev => ({ ...prev, [key]: !prev[key] })
Toggled(prev, key) == [prev EXCEPT ![key] = ~prev[key]]

toggleLayer(key) ==
  /\ layers' = Toggled(layers, key)
  /\ lastToggle' = [key |-> key, before |-> layers]
  /\ UNCHANGED <<chatVars, displayVars, sceneVars, handVars, moreVars>>

InitApp ==
  /\ layers = InitialLayers
  /\ lastToggle = [key |-> "none", before |-> InitialLayers]

NextApp == \E key \in LayerKeys : toggleLayer(key)

(***************************************************************************)
(* AIChatHub: the knowledge-base chat.                                     *)
(***************************************************************************)
Q1 == <<"W","h","a","t"," ","c","o","n","d","i","t","i","o","n"," ","i","s"," ","b","e","i","n","g"," ","s","h","o","w","n"," ","i","n"," ","t","h","i","s"," ","s","c","a","n","?">>
Q2 == <<"I","s"," ","t","h","e"," ","d","i","s","e","a","s","e"," ","s","p","r","e","a","d","i","n","g"," ","t","o"," ","b","o","t","h"," ","l","u","n","g","s","?">>
Q3 == <<"H","o","w"," ","w","i","l","l"," ","t","h","i","s"," ","a","f","f","e","c","t"," ","m","y"," ","p","h","y","s","i","c","a","l"," ","a","c","t","i","v","i","t","y","?">>
Q4 == <<"W","h","a","t"," ","i","s"," ","e","m","p","h","y","s","e","m","a","t","o","u","s"," ","b","u","l","l","a","?">>
Q5 == <<"W","h","y"," ","i","s"," ","m","y"," ","a","i","r","f","l","o","w"," ","r","e","s","t","r","i","c","t","e","d","?">>
Q6 == <<"W","h","a","t"," ","i","s"," ","m","y"," ","s","t","i","f","f","n","e","s","s"," ","i","n","d","e","x"," ","a","n","d"," ","w","h","a","t"," ","d","o","e","s"," ","i","t"," ","m","e","a","n","?">>
Q7 == <<"H","o","w"," ","d","o","e","s"," ","s","m","o","k","i","n","g"," ","a","f","f","e","c","t"," ","t","h","i","s"," ","c","o","n","d","i","t","i","o","n","?">>
Q8 == <<"W","h","a","t"," ","m","e","d","i","c","a","t","i","o","n","s"," ","a","r","e"," ","t","y","p","i","c","a","l"," ","f","o","r"," ","C","O","P","D","?">>
Q9 == <<"C","a","n"," ","t","h","e","s","e"," ","d","a","m","a","g","e","d"," ","a","r","e","a","s"," ","h","e","a","l","?">>
Q10 == <<"W","h","a","t"," ","s","h","o","u","l","d"," ","I"," ","m","o","n","i","t","o","r"," ","d","a","i","l","y","?">>

A1 == "Based on the 3D reconstruction and the CT slices, your scan shows clear signs of Chronic Obstructive Pulmonary Disease (COPD) with underlying Emphysema. The 'black holes' in the upper lobes indicate tissue loss."
A2 == "Currently, the analysis detects pathology primarily in the upper lobes of both lungs, but the 'Emphysematous Bulla' (large air pocket) is most prominent in your upper left lung."
A3 == "Because your total lung volume is decreased by 13.1% and air trapping is at 18%, you may experience shortness of breath during exertion. The lungs cannot exchange oxygen as efficiently as healthy tissue."
A4 == "A bulla is a permanent air-filled space within the lung that develops when the walls of the tiny air sacs (alveoli) are destroyed. It doesn't contribute to breathing and can compress healthy lung tissue around it."
A5 == "Your distal airways are showing structural distortion and narrowing. This prevents air from leaving the lungs smoothly, leading to the 'Air Trapping' shown in your metrics."
A6 == "Your stiffness index increased from 2.1 to 6.8. This indicates 'mechanical impedance'--your lung tissue is becoming less elastic and harder to expand, making it more work to take a deep breath."
A7 == "Smoking is the primary cause of the tissue destruction seen here. It accelerates the breakdown of alveoli walls and increases inflammation in the airways, worsening air trapping."
A8 == "Typical treatments include bronchodilators to open airways, corticosteroids to reduce inflammation, and sometimes supplemental oxygen. *Note: Always consult your physician for prescriptions.*"
A9 == "Lungs generally don't 'regrow' destroyed alveoli. However, the goal of treatment is to protect the remaining 82% of healthy air capacity and improve your quality of life through therapy."
A10 == "You should monitor your oxygen saturation (SpO2), your level of breathlessness during resting vs. activity, and any changes in cough or sputum production."

PRESET_QUESTIONS == <<Q1, Q2, Q3, Q4, Q5, Q6, Q7, Q8, Q9, Q10>>

\* KNOWLEDGE_BASE, in key order: the answers are opaque to the code (the em dash of A6 is written --)
KNOWLEDGE_BASE == <<A1, A2, A3, A4, A5, A6, A7, A8, A9, A10>>

Greeting == "Hello! I'm LungScape AI. I've analyzed your 3D lung model and CT data. How can I help you understand your results today?"
Fallback == "I'm sorry, I don't have specific data on that yet. Try asking one of the recommended questions or consult your specialist."

\* q.toLowerCase() compared with the text as typed, its toLowerCase() forgotten
MatchesTextAsTyped(text, q) ==
  LET ql == ToLowerCase(q)
  IN Includes(text, ql) \/ Includes(ql, text)

\* text.toLowerCase().includes(q.toLowerCase()) || q.toLowerCase().includes(text.toLowerCase())
Matches(text, q) ==
  LET tl == ToLowerCase(text)
      ql == ToLowerCase(q)
  IN Includes(tl, ql) \/ Includes(ql, tl)

\* Object.keys(KNOWLEDGE_BASE).find(...): the first key, in insertion order, that matches; 0 for undefined
FoundMatch(text) ==
  IF \E i \in 1..Len(PRESET_QUESTIONS) : Matches(text, PRESET_QUESTIONS[i])
  THEN CHOOSE i \in 1..Len(PRESET_QUESTIONS) :
         /\ Matches(text, PRESET_QUESTIONS[i])
         /\ \A j \in 1..(i-1) : ~Matches(text, PRESET_QUESTIONS[j])
  ELSE 0

\* the aiText the timeout callback computes for the text it captured
AiText(text) ==
  LET foundMatch == FoundMatch(text)
  IN IF foundMatch # 0 THEN KNOWLEDGE_BASE[foundMatch] ELSE Fallback

\* texts typed into the input box
TypedTexts == { <<>>, <<" "," ">>, <<"c","o","p","d">>, <<"x","y","z">>,
                <<"W","H","A","T"," ","I","S"," ","E","M","P","H","Y","S","E","M","A","T","O","U","S"," ","B","U","L","L","A","?">> }

\* every text handleSend can be called with, and the aiText of each, computed once
SendTexts == TypedTexts \cup {PRESET_QUESTIONS[i] : i \in 1..Len(PRESET_QUESTIONS)}
AiTextOf  == [text \in SendTexts |-> AiText(text)]

MaxSends == 2

InitChat ==
  /\ messages = << [sender |-> "ai", text |-> Greeting] >>
  /\ inputValue = <<>>
  /\ isTyping = FALSE
  /\ pending = <<>>
  /\ sends = 0

\* onChange={(e) => setInputValue(e.target.value)}
SetInputValue(t) ==
  /\ inputValue # t
  /\ inputValue' = t
  /\ UNCHANGED <<messages, isTyping, pending, sends>>
  /\ UNCHANGED <<appVars, displayVars, sceneVars, handVars, moreVars>>

\* handleSend(text), up to the setTimeout call
handleSend(text) ==
  /\ sends < MaxSends
  /\ IF Trim(text) = <<>>
     THEN UNCHANGED chatVars
     ELSE /\ messages' = Append(messages, [sender |-> "user", text |-> text])
          /\ inputValue' = <<>>
          /\ isTyping' = TRUE
          /\ pending' = Append(pending, text)
          /\ sends' = sends + 1
  /\ UNCHANGED <<appVars, displayVars, sceneVars, handVars, moreVars>>

\* the setTimeout callback of the oldest handleSend still waiting (equal delays run in call order)
AiReply ==
  /\ pending # <<>>
  /\ pending' = Tail(pending)
  /\ isTyping' = FALSE
  /\ UNCHANGED <<inputValue, sends>>
  /\ UNCHANGED <<appVars, displayVars, sceneVars, handVars, moreVars>>
  /\ messages' = Append(messages, [sender |-> "ai", text |-> AiTextOf[Head(pending)]])

ClickPreset == \E i \in 1..Len(PRESET_QUESTIONS) : handleSend(PRESET_QUESTIONS[i])
SubmitInput == handleSend(inputValue)
TypeInput   == \E t \in TypedTexts : SetInputValue(t)

NextChat == ClickPreset \/ SubmitInput \/ TypeInput \/ AiReply

\* the chips clicked where the order of sends and replies is followed over time
ChipsClicked == {4, 8}
ClickChip    == \E i \in ChipsClicked : handleSend(PRESET_QUESTIONS[i])

NextChatLive == ClickChip \/ SubmitInput \/ TypeInput \/ AiReply

(***************************************************************************)
(* GeminiAnalysisDisplay: parseFindings and highlightNumbers.              *)
(***************************************************************************)
\* position of the first occurrence of sep in s at or after p; 0 when there is none
RECURSIVE IndexOfFrom(_, _, _)
IndexOfFrom(s, sep, p) ==
  IF p + Len(sep) - 1 > Len(s) THEN 0
  ELSE IF OccursAt(s, sep, p) THEN p
  ELSE IndexOfFrom(s, sep, p + 1)

\* String.prototype.split(sep) for a non-empty string separator, from position p
RECURSIVE SplitStrFrom(_, _, _)
SplitStrFrom(s, sep, p) ==
  LET q == IndexOfFrom(s, sep, p)
  IN IF q = 0 THEN << SubSeq(s, p, Len(s)) >>
     ELSE << SubSeq(s, p, q - 1) >> \o SplitStrFrom(s, sep, q + Len(sep))

SplitStr(s, sep) == SplitStrFrom(s, sep, 1)

BulletMarker == <<"*"," ","*","*">>
TitleEnd     == <<":","*","*">>

KwVolume        == <<"V","o","l","u","m","e">>
KwRestrictive   == <<"R","e","s","t","r","i","c","t","i","v","e">>
KwStiffness     == <<"S","t","i","f","f","n","e","s","s">>
KwAirway        == <<"A","i","r","w","a","y">>
KwArchitectural == <<"A","r","c","h","i","t","e","c","t","u","r","a","l">>

\* the icon (and with it color, bg, border) chosen from keywords in the title
IconFor(title) ==
  IF Includes(title, KwVolume) \/ Includes(title, KwRestrictive) THEN "TrendingDown"
  ELSE IF Includes(title, KwStiffness) THEN "Zap"
  ELSE IF Includes(title, KwAirway) \/ Includes(title, KwArchitectural) THEN "Wind"
  ELSE "Activity"

NullEntry == [title |-> <<>>, body |-> <<>>, icon |-> "null"]

\* const body = parts[1].trim()
BodyPart(parts) == parts[2]

\* the map callback of parseFindings
FindingOf(item) ==
  LET parts == SplitStr(item, TitleEnd)
  IN IF Len(parts) < 2 THEN NullEntry
     ELSE LET title == Trim(parts[1])
              body  == Trim(BodyPart(parts))
          IN [title |-> title, body |-> body, icon |-> IconFor(title)]

parseFindings(text) ==
  LET split    == SplitStr(text, BulletMarker)
      rawItems == SelectSeq(split, LAMBDA item : Len(Trim(item)) > 0)
      mapped   == [i \in 1..Len(rawItems) |-> FindingOf(rawItems[i])]
  IN SelectSeq(mapped, LAMBDA e : e # NullEntry)

Digits == {"0", "1", "2", "3", "4", "5", "6", "7", "8", "9"}
IsDigit(c) == c \in Digits

\* \d* from position i: the position after the longest run of digits
RECURSIVE DigitsEnd(_, _)
DigitsEnd(s, i) == IF i <= Len(s) /\ IsDigit(s[i]) THEN DigitsEnd(s, i + 1) ELSE i

\* \d+\.?\d* at position i: the position after the match, 0 for no match.  The
\* three quantifiers are greedy, and no shorter choice lets what follows the number
\* in the regex ("%", " mL", " to ") match where the longest does not: a shorter
\* choice stops before a digit or a dot.
NumEnd(s, i) ==
  IF i <= Len(s) /\ IsDigit(s[i])
  THEN LET a == DigitsEnd(s, i)
           b == IF a <= Len(s) /\ s[a] = "." THEN a + 1 ELSE a
       IN DigitsEnd(s, b)
  ELSE 0

LitPercent == <<"%">>
LitMl      == <<" ","m","L">>
LitFrom    == <<"f","r","o","m"," ">>
LitTo      == <<" ","t","o"," ">>

\* \d+\.?\d*%
AltPercent(s, i) ==
  LET e == NumEnd(s, i)
  IN IF e # 0 /\ OccursAt(s, LitPercent, e) THEN e + Len(LitPercent) ELSE 0

\* \d+\.?\d* mL
AltMl(s, i) ==
  LET e == NumEnd(s, i)
  IN IF e # 0 /\ OccursAt(s, LitMl, e) THEN e + Len(LitMl) ELSE 0

\* from \d+\.?\d* to \d+\.?\d*
AltRange(s, i) ==
  IF ~OccursAt(s, LitFrom, i) THEN 0
  ELSE LET e1 == NumEnd(s, i + Len(LitFrom))
       IN IF e1 = 0 \/ ~OccursAt(s, LitTo, e1) THEN 0
          ELSE NumEnd(s, e1 + Len(LitTo))

\* the regex at position i: the alternatives in the order written; 0 for no match
MatchEnd(s, i) ==
  IF AltPercent(s, i) # 0 THEN AltPercent(s, i)
  ELSE IF AltMl(s, i) # 0 THEN AltMl(s, i)
  ELSE IF AltRange(s, i) # 0 THEN AltRange(s, i)
  ELSE NumEnd(s, i)

\* the first position at or after q where the regex matches; 0 when there is none
RECURSIVE FirstMatchFrom(_, _)
FirstMatchFrom(s, q) ==
  IF q > Len(s) THEN 0
  ELSE IF MatchEnd(s, q) # 0 THEN q
  ELSE FirstMatchFrom(s, q + 1)

\* text.split(regex) with one capturing group: text between matches at the odd
\* places (1-based), the captured matches at the even ones
RECURSIVE SplitRegexFrom(_, _)
SplitRegexFrom(s, p) ==
  LET q == FirstMatchFrom(s, p)
  IN IF q = 0 THEN << SubSeq(s, p, Len(s)) >>
     ELSE << SubSeq(s, p, q - 1), SubSeq(s, q, MatchEnd(s, q) - 1) >>
          \o SplitRegexFrom(s, MatchEnd(s, q))

\* text.match(regex) with the g flag: every match, left to right; <<>> for null
RECURSIVE MatchAllFrom(_, _)
MatchAllFrom(s, p) ==
  LET q == FirstMatchFrom(s, p)
  IN IF q = 0 THEN <<>>
     ELSE << SubSeq(s, q, MatchEnd(s, q) - 1) >> \o MatchAllFrom(s, MatchEnd(s, q))

\* a matchIndex that is never advanced
MatchForStuck(matches, k) == matches[1]

\* matches[matchIndex++] at the k-th odd index of parts
MatchFor(matches, k) == matches[k]

\* match.match(/\d/)
HasDigit(s) == \E i \in 1..Len(s) : IsDigit(s[i])

\* the pieces highlightNumbers returns: wrapped is the <span>, text what it shows
highlightNumbers(text) ==
  LET parts   == SplitRegexFrom(text, 1)
      matches == MatchAllFrom(text, 1)
  IN IF matches = <<>> THEN << [text |-> text, wrapped |-> FALSE] >>
     ELSE [i \in 1..Len(parts) |->
            IF i % 2 = 0
            THEN LET match == MatchFor(matches, i \div 2)
                 IN [text |-> match, wrapped |-> HasDigit(match)]
            ELSE [text |-> parts[i], wrapped |-> FALSE]]

\* the component body: findings, and highlightNumbers(item.body) for each
Render ==
  /\ ~rendered
  /\ rendered' = TRUE
  /\ findings' = parseFindings(analysis)
  /\ pieces' = [i \in 1..Len(parseFindings(analysis)) |-> highlightNumbers(parseFindings(analysis)[i].body)]
  /\ UNCHANGED <<segments, analysis>>
  /\ UNCHANGED <<appVars, chatVars, sceneVars, handVars, moreVars>>

NextDisplay == Render

\* a segment as App's hardcodedAnalysis writes it: marker, title, ":**", a space, body, blank line
SegmentText(seg) == BulletMarker \o seg.title \o TitleEnd \o <<" ">> \o seg.body \o <<"\n", "\n">>

RECURSIVE TextOf(_)
TextOf(segs) == IF segs = <<>> THEN <<>> ELSE SegmentText(Head(segs)) \o TextOf(Tail(segs))

RECURSIVE Flatten(_)
Flatten(toks) == IF toks = <<>> THEN <<>> ELSE Head(toks) \o Flatten(Tail(toks))

RECURSIVE SeqsUpTo(_, _)
SeqsUpTo(S, n) ==
  IF n = 0 THEN { <<>> }
  ELSE LET shorter == SeqsUpTo(S, n - 1)
       IN shorter \cup { Append(q, x) : q \in shorter, x \in S }

MaxSegs == 2
MaxTok  == 4

Titles == { <<"T">>, <<"V","o","l","u","m","e"," ","L","o","s","s">>, <<"S","m","a","l","l"," ","A","i","r","w","a","y">> }
Bodies == { <<"b">>, <<"u","p"," ","5","%">>, <<"a"," ","*","*","N",":","*","*"," ","b">> }
Tokens == { <<"f","r","o","m"," ","1">>, <<" ","t","o"," ","2">>, <<"3">>, <<".">>, <<"%">>, <<" ","m","L">>, <<"x">> }

InitDisplayWith(segs) ==
  /\ segments = segs
  /\ analysis = TextOf(segs)
  /\ rendered = FALSE
  /\ findings = <<>>
  /\ pieces = <<>>

\* the component at rest, for the specifications of the other components
InitDisplay == InitDisplayWith(<<>>)

\* up to MaxSegs segments with titles and bodies from Titles and Bodies
InitFindings ==
  \E segs \in SeqsUpTo([title : Titles, body : Bodies], MaxSegs) : InitDisplayWith(segs)

\* one segment whose body is up to MaxTok tokens
InitHighlight ==
  \E toks \in SeqsUpTo(Tokens, MaxTok) :
    InitDisplayWith(<< [title |-> <<"T">>, body |-> Trim(Flatten(toks))] >>)

(***************************************************************************)
(* LungVisualizer: the geometry built by the scene effect.  App mounts two *)
(* instances with the same metrics and layers.  Math.random() is a choice  *)
(* from RandomValues (in 1/1000).  Of each family of random draws the      *)
(* first element is modelled: the first child branch of the first airway,  *)
(* the first vertex of the pathology mesh, particle 0.                     *)
(***************************************************************************)
Instances == {"normal", "full"}

RandomValues == {250, 750}

AirwaySpread == 800

\* (Math.random() - 0.5) * spread, the Euler angle applied to the parent direction
BranchAngle(r, spread) == ((r - 500) * spread) \div 1000

\* pPos.getX(i) + Math.random() * 0.1: the offset added to the sphere vertex
VertexJitter(r) == r \div 10

\* initParticle: isRight, startY and the start phase
ParticleStart(r1, r2, r3) ==
  [isRight |-> r1 > 500, startY |-> 2200 + ((r2 - 500) * 400) \div 1000, lifetime |-> r3]

Unbuilt ==
  [built |-> FALSE, branchDir |-> <<0, 0, 0>>, pathologyVertex |-> <<0, 0, 0>>,
   particle |-> [isRight |-> FALSE, startY |-> 0, lifetime |-> 0]]

\* what the scene effect builds from its random draws
Built(bx, by, bz, px, py, pz, a1, a2, a3) ==
  [built |-> TRUE,
   branchDir |-> <<BranchAngle(bx, AirwaySpread), BranchAngle(by, AirwaySpread),
                   BranchAngle(bz, AirwaySpread)>>,
   pathologyVertex |-> <<VertexJitter(px), VertexJitter(py), VertexJitter(pz)>>,
   particle |-> ParticleStart(a1, a2, a3)]

\* the scene effect of one LungVisualizer instance
BuildScene(inst) ==
  /\ ~geometry[inst].built
  /\ \E bx, by, bz, px, py, pz, a1, a2, a3 \in RandomValues :
       geometry' = [geometry EXCEPT ![inst] = Built(bx, by, bz, px, py, pz, a1, a2, a3)]
  /\ UNCHANGED activeLabel
  /\ UNCHANGED <<appVars, chatVars, displayVars, handVars, moreVars>>

InitScene ==
  /\ geometry = [inst \in Instances |-> Unbuilt]
  /\ activeLabel = [inst \in Instances |-> "null"]

NextScene == \E inst \in Instances : BuildScene(inst)

(***************************************************************************)
(* HandGestureController.  The controls of both LungVisualizer instances   *)
(* are kept; App passes the one of the visible instance as target.  The    *)
(* camera is held as the spherical offset from the orbit target that       *)
(* predictWebcam reads (setFromVector3) and writes back (setFromSpherical).*)
(* Angles are in 1/1000 rad, distances in 1/1000 of a scene unit and       *)
(* landmark coordinates in 1/1000 of the frame.                            *)
(***************************************************************************)
MaxFrames  == 2
MaxStreams == 2

Pi     == 3142
TwoPi  == 6283
PhiMin == 10
PhiMax == 3132

PinchPercent == 35
ZoomSpeed    == 4
ZoomDeadband == 5
ThrottleMs   == 30
RotSpeed     == 5
RotDeadband  == 1

InitialRadius == 18000
Infinity      == 1000000000

NoError == "null"

Abs(x) == IF x < 0 THEN -x ELSE x
Max(a, b) == IF a > b THEN a ELSE b
Min(a, b) == IF a < b THEN a ELSE b

RECURSIVE SqrtSearch(_, _, _)
SqrtSearch(n, lo, hi) ==
  IF lo = hi THEN lo
  ELSE LET mid == (lo + hi + 1) \div 2
       IN IF mid * mid <= n THEN SqrtSearch(n, mid, hi) ELSE SqrtSearch(n, lo, mid - 1)

\* Math.sqrt, rounded down to the unit
Sqrt(n) == SqrtSearch(n, 0, 2000)

\* Math.sqrt(Math.pow(a.x - b.x, 2) + Math.pow(a.y - b.y, 2))
Distance(a, b) == Sqrt((a[1] - b[1]) * (a[1] - b[1]) + (a[2] - b[2]) * (a[2] - b[2]))

\* landmarks 0, 4, 8, 9 of a hand whose wrist is at <<wx, wy>>, 200 tall, with the
\* thumb and index tips gap apart
Pose(wx, wy, gap) ==
  [wrist |-> <<wx, wy>>, middleKnuckle |-> <<wx, wy - 200>>,
   thumbTip |-> <<wx - 40, wy - 250>>, indexTip |-> <<wx - 40 + gap, wy - 250>>]

\* two pinching poses and two open poses; a pose held over two frames is a
\* movement within the deadband
HandPoses ==
  { Pose(500, 600, 20), Pose(500, 600, 60), Pose(500, 400, 100), Pose(600, 1000, 100) }

\* what detectForVideo does on a frame: throws, finds no hand, or returns landmarks
Detections ==
  { [kind |-> k, landmarks |-> Pose(0, 0, 0)] : k \in {"throws", "nohand"} }
  \cup { [kind |-> "hand", landmarks |-> p] : p \in HandPoses }

NoDetection == [kind |-> "none", landmarks |-> Pose(0, 0, 0)]

\* what the claims need to know of the operation that ran last: whether it was a
\* frame of predictWebcam, with the detection it was given and the polar angle and
\* the status it found, a stopCamera, or any other operation
OtherOp(name) ==
  [op |-> name, det |-> NoDetection, processed |-> FALSE, phi |-> 0, status |-> "",
   radius |-> 0, theta |-> 0, gesture |-> "none", stopped |-> FALSE]

HandSize(lm)  == Distance(lm.wrist, lm.middleKnuckle)
PinchDist(lm) == Distance(lm.indexTip, lm.thumbTip)

\* const isPinching = pinchDist < (handSize * 0.35)
IsPinching(lm) == PinchDist(lm) * 100 < HandSize(lm) * PinchPercent

\* const normalizedPinch = pinchDist / handSize (only evaluated when pinching, so handSize > 0)
NormalizedPinch(lm) == (PinchDist(lm) * 1000) \div HandSize(lm)

Centroid(lm) ==
  << (lm.wrist[1] + lm.middleKnuckle[1]) \div 2, (lm.wrist[2] + lm.middleKnuckle[2]) \div 2 >>

NullCentroid == << -1, -1 >>

\* the labels of the two gestures exchanged
GestureStatusSwapped(isPinching) == IF isPinching THEN "ROTATING" ELSE "ZOOMING"

\* setStatus("ZOOMING") / setStatus("ROTATING")
GestureStatus(isPinching) == IF isPinching THEN "ZOOMING" ELSE "ROTATING"

\* the rescaled radius left as computed
ClampRadiusMissing(radius, c) == radius

\* Math.max(controls.minDistance, Math.min(controls.maxDistance, spherical.radius))
ClampRadius(radius, c) == Max(c.minDistance, Min(c.maxDistance, radius))

\* the zoom branch without the test for a remembered distance: null - normalizedPinch
\* is computed as 0 - normalizedPinch
ZoomedRadiusNullAsZero(c, last, normalizedPinch) ==
  LET delta == (IF last = -1 THEN 0 ELSE last) - normalizedPinch
  IN IF Abs(delta) > ZoomDeadband
     THEN LET scaled == IF delta > 0
                        THEN (c.radius * (1000 + delta * ZoomSpeed)) \div 1000
                        ELSE (c.radius * 1000) \div (1000 + Abs(delta) * ZoomSpeed)
          IN ClampRadius(scaled, c)
     ELSE c.radius

\* the zoom branch: the new spherical.radius
ZoomedRadius(c, last, normalizedPinch) ==
  IF last = -1 THEN c.radius
  ELSE LET delta == last - normalizedPinch
       IN IF Abs(delta) > ZoomDeadband
          THEN LET scaled == IF delta > 0
                             THEN (c.radius * (1000 + delta * ZoomSpeed)) \div 1000
                             ELSE (c.radius * 1000) \div (1000 + Abs(delta) * ZoomSpeed)
               IN ClampRadius(scaled, c)
          ELSE c.radius

\* the polar angle left as computed
ClampPhiMissing(phi) == phi

\* Math.max(0.01, Math.min(Math.PI - 0.01, spherical.phi))
ClampPhi(phi) == Max(PhiMin, Min(PhiMax, phi))

\* the rotate branch: the new spherical.theta
RotatedTheta(c, last, lastPinch, centroid) ==
  IF last # NullCentroid /\ lastPinch = -1 /\ Abs(centroid[1] - last[1]) > RotDeadband
  THEN c.theta - (centroid[1] - last[1]) * RotSpeed
  ELSE c.theta

\* the rotate branch: the new spherical.phi
RotatedPhi(c, last, lastPinch, centroid) ==
  IF last # NullCentroid /\ lastPinch = -1 /\ Abs(centroid[2] - last[2]) > RotDeadband
  THEN ClampPhi(c.phi - (centroid[2] - last[2]) * RotSpeed)
  ELSE c.phi

\* Spherical.makeSafe: phi kept in [EPS, PI - EPS], EPS = 0.000001
MakeSafe(phi) == Max(0, Min(Pi, phi))

\* Spherical.setFromVector3 reads the azimuth back as atan2(x, z), in (-PI, PI]
WrapTheta(theta) == ((theta + Pi - 1) % TwoPi) - (Pi - 1)

\* controls.update() of OrbitControls (three.js) with no pointer input pending: the
\* polar angle is restricted to [minPolarAngle, maxPolarAngle] = [0, PI] and made
\* safe, the distance to [minDistance, maxDistance], and the camera is put back on
\* the sphere
ControlsUpdate(c) ==
  [c EXCEPT !.phi = MakeSafe(c.phi),
            !.radius = Max(c.minDistance, Min(c.maxDistance, c.radius))]

\* the camera moved, controls.update() not called
ApplyAndSyncNoUpdate(c) == [c EXCEPT !.phi = MakeSafe(c.phi)]

\* spherical.makeSafe(); camera.position = target + offset; controls.update()
ApplyAndSync(c) == ControlsUpdate([c EXCEPT !.phi = MakeSafe(c.phi)])

\* activeControlsPropRef.current: the ref App passes for the visible instance
TargetInstance == IF isFullscreen THEN "full" ELSE "normal"

\* predictWebcam, sections C onward, for a frame on which a hand was detected
HandFrame(lm) ==
  LET inst == TargetInstance
      c0   == controls[inst]
      c    == IF isControlling THEN c0 ELSE [c0 EXCEPT !.enableDamping = FALSE]
  IN IF ~c0.present
     THEN /\ status' = "Searching (No 3D)..."
          /\ UNCHANGED gestureVars
     ELSE /\ wasDampingEnabled' = IF isControlling THEN wasDampingEnabled ELSE c0.enableDamping
          /\ isControlling' = TRUE
          /\ status' = GestureStatus(IsPinching(lm))
          /\ IF IsPinching(lm)
             THEN /\ controls' = [controls EXCEPT ![inst] = ApplyAndSync(
                        [c EXCEPT !.radius = ZoomedRadius(c, lastPinchDist, NormalizedPinch(lm))])]
                  /\ lastPinchDist' = NormalizedPinch(lm)
                  /\ lastCentroid' = NullCentroid
             ELSE /\ controls' = [controls EXCEPT ![inst] = ApplyAndSync(
                        [c EXCEPT !.theta = WrapTheta(RotatedTheta(c, lastCentroid, lastPinchDist, Centroid(lm))),
                                  !.phi = RotatedPhi(c, lastCentroid, lastPinchDist, Centroid(lm))])]
                  /\ lastCentroid' = Centroid(lm)
                  /\ lastPinchDist' = -1

\* predictWebcam, for a frame on which no hand was detected
NoHandFrame ==
  /\ status' = "Searching..."
  /\ lastPinchDist' = -1
  /\ lastCentroid' = NullCentroid
  /\ IF controls[TargetInstance].present /\ isControlling
     THEN /\ controls' = [controls EXCEPT ![TargetInstance].enableDamping = wasDampingEnabled]
          /\ isControlling' = FALSE
     ELSE UNCHANGED <<controls, isControlling>>
  /\ UNCHANGED wasDampingEnabled

\* what a detection result shows: a pinch, an open hand, or no hand
GestureOf(det) ==
  IF det.kind # "hand" THEN "none"
  ELSE IF IsPinching(det.landmarks) THEN "pinch" ELSE "open"

\* predictWebcam without the try/catch around detectForVideo: a failed detection is
\* handled like an empty result
predictWebcamUncaught(det) ==
  /\ frames' = frames + 1
  /\ lastOp' = [OtherOp("frame") EXCEPT !.det = det, !.processed = det.kind # "throws"]
  /\ lastGesture' = GestureOf(det)
  /\ stoppedSince' = FALSE
  /\ IF det.kind = "hand" THEN HandFrame(det.landmarks) ELSE NoHandFrame

\* predictWebcam: the refs are set and the video has a size when the loop calls it
predictWebcam(det) ==
  /\ frames' = frames + 1
  /\ IF det.kind = "throws"
     THEN /\ UNCHANGED <<status, gestureVars, lastGesture, stoppedSince>>
          /\ lastOp' = [OtherOp("frame") EXCEPT !.det = det]
     ELSE /\ lastOp' = [op |-> "frame", det |-> det, processed |-> TRUE,
                        phi |-> controls[TargetInstance].phi, status |-> status,
                        radius |-> controls[TargetInstance].radius,
                        theta |-> controls[TargetInstance].theta,
                        gesture |-> lastGesture, stopped |-> stoppedSince]
          /\ lastGesture' = GestureOf(det)
          /\ stoppedSince' = FALSE
          /\ IF det.kind = "hand" THEN HandFrame(det.landmarks) ELSE NoHandFrame

\* the time between two runs of a requestAnimationFrame callback, in ms: one display
\* frame at 60 Hz
FrameIntervals == {15}

\* Date.now() - lastPredictionTimeRef.current, ms after sinceLast, counted up to the throttle
Elapsed(ms) == IF sinceLast + ms > ThrottleMs THEN ThrottleMs ELSE sinceLast + ms

\* now - lastPredictionTimeRef.current >= 30; the variant without the throttle comes first
DueAlways(since) == TRUE
Due(since) == since >= ThrottleMs

\* what cancelAnimationFrame(animationFrameRef.current) leaves pending
AfterCancel == IF loopScheduled THEN pendingLoops - 1 ELSE pendingLoops

\* the guard of loop(): the throttle has elapsed, the video has data and is not
\* paused, and the landmarker is loaded
CanPredict(due) == due /\ mounted /\ playing /\ landmarker # "null"

\* what detectForVideo can do in a run of loop(): it is called only when loop() samples
Sampled(since) == IF CanPredict(Due(since)) THEN Detections ELSE {NoDetection}

\* loop(): one run of the sampling loop body, which then schedules itself again
LoopBody(since, det) ==
  /\ IF CanPredict(Due(since))
     THEN /\ sinceLast' = 0
          /\ lastGap' = since
          /\ predictWebcam(det)
     ELSE /\ sinceLast' = since
          /\ UNCHANGED <<status, gestureVars, frames, lastGesture, stoppedSince, lastGap>>
          /\ lastOp' = OtherOp("other")
  /\ loopScheduled' = TRUE

\* the requestAnimationFrame callback
LoopTick ==
  /\ pendingLoops > 0
  /\ frames < MaxFrames
  /\ \E ms \in FrameIntervals : \E det \in Sampled(Elapsed(ms)) : LoopBody(Elapsed(ms), det)
  /\ pendingLoops' = (pendingLoops - 1) + 1
  /\ UNCHANGED <<mounted, enabled, loading, error, initPc, landmarker, cameraVars,
                 effectEnabled, isFullscreen>>
  /\ UNCHANGED <<appVars, chatVars, displayVars, sceneVars, moreVars>>

\* the control-loop effect, run after a render in which enabled changed: the
\* cleanup of the previous run, then the body
ControlLoopEffect ==
  /\ mounted
  /\ effectEnabled # enabled
  /\ effectEnabled' = enabled
  /\ IF enabled
     THEN /\ frames < MaxFrames
          /\ \E det \in Sampled(sinceLast) : LoopBody(sinceLast, det)
          /\ pendingLoops' = AfterCancel + 1
     ELSE /\ loopScheduled' = FALSE
          /\ pendingLoops' = AfterCancel
          /\ UNCHANGED <<sinceLast, lastGap>>
          /\ IF controls[TargetInstance].present /\ isControlling
             THEN /\ controls' = [controls EXCEPT ![TargetInstance].enableDamping = wasDampingEnabled]
                  /\ isControlling' = FALSE
             ELSE UNCHANGED <<controls, isControlling>>
          /\ UNCHANGED <<status, lastPinchDist, lastCentroid, wasDampingEnabled, frames, lastGesture, stoppedSince>>
          /\ lastOp' = OtherOp("other")
  /\ UNCHANGED <<mounted, enabled, loading, error, initPc, landmarker, cameraVars, isFullscreen>>
  /\ UNCHANGED <<appVars, chatVars, displayVars, sceneVars, moreVars>>

\* init(): FilesetResolver.forVisionTasks resolves
VisionResolved ==
  /\ initPc = "vision"
  /\ initPc' = IF mounted THEN "model" ELSE "done"
  /\ lastOp' = OtherOp("other")
  /\ UNCHANGED <<mounted, uiVars, landmarker, cameraVars, effectEnabled, loopVars,
                 isFullscreen, gestureVars, frames, lastGesture, stoppedSince>>
  /\ UNCHANGED <<appVars, chatVars, displayVars, sceneVars, moreVars>>

\* init(): HandLandmarker.createFromOptions resolves with a new landmarker, which is
\* stored only if (isMounted)
LandmarkerCreated ==
  /\ initPc = "model"
  /\ initPc' = IF mounted THEN "done" ELSE "dropped"
  /\ IF mounted
     THEN /\ landmarker' = "open"
          /\ status' = "Ready"
          /\ loading' = FALSE
     ELSE UNCHANGED <<landmarker, status, loading>>
  /\ lastOp' = OtherOp("other")
  /\ UNCHANGED <<mounted, enabled, error, cameraVars, effectEnabled, loopVars,
                 isFullscreen, gestureVars, frames, lastGesture, stoppedSince>>
  /\ UNCHANGED <<appVars, chatVars, displayVars, sceneVars, moreVars>>

\* init(): either await rejects
InitFailed ==
  /\ initPc \in {"vision", "model"}
  /\ initPc' = "failed"
  /\ IF mounted
     THEN /\ status' = "AI Init Failed"
          /\ error' = "Could not load AI model."
          /\ loading' = FALSE
     ELSE UNCHANGED <<status, error, loading>>
  /\ lastOp' = OtherOp("other")
  /\ UNCHANGED <<mounted, enabled, landmarker, cameraVars, effectEnabled, loopVars,
                 isFullscreen, gestureVars, frames, lastGesture, stoppedSince>>
  /\ UNCHANGED <<appVars, chatVars, displayVars, sceneVars, moreVars>>

\* stopCamera
stopCamera ==
  /\ enabled' = FALSE
  /\ status' = "Ready"
  /\ IF srcObject # 0
     THEN /\ liveStreams' = liveStreams \ {srcObject}
          /\ srcObject' = 0
          /\ loadPending' = FALSE
          /\ playing' = FALSE
     ELSE UNCHANGED <<liveStreams, srcObject, loadPending, playing>>
  /\ lastOp' = OtherOp("stopCamera")
  /\ stoppedSince' = TRUE
  /\ UNCHANGED <<mounted, loading, error, initPc, landmarker, acquired, gumPending, playPending,
                 effectEnabled, loopVars, isFullscreen, gestureVars, frames, lastGesture>>

\* window.location.reload(): the page, and with it the component and the camera, starts again
Reload ==
  /\ mounted' = TRUE
  /\ enabled' = FALSE
  /\ loading' = TRUE
  /\ status' = "Initializing AI..."
  /\ error' = NoError
  /\ initPc' = "vision"
  /\ landmarker' = "null"
  /\ srcObject' = 0
  /\ liveStreams' = {}
  /\ gumPending' = 0
  /\ loadPending' = FALSE
  /\ playPending' = FALSE
  /\ playing' = FALSE
  /\ effectEnabled' = FALSE
  /\ loopScheduled' = FALSE
  /\ pendingLoops' = 0
  /\ sinceLast' = ThrottleMs
  /\ lastGap' = ThrottleMs
  /\ isFullscreen' = FALSE
  /\ controls' = [inst \in Instances |->
                   [controls[inst] EXCEPT !.enableDamping = TRUE, !.radius = InitialRadius,
                                          !.theta = 0, !.phi = Pi \div 2]]
  /\ lastPinchDist' = -1
  /\ lastCentroid' = NullCentroid
  /\ wasDampingEnabled' = TRUE
  /\ isControlling' = FALSE
  /\ lastOp' = OtherOp("other")
  /\ lastGesture' = "none"
  /\ stoppedSince' = FALSE
  /\ UNCHANGED <<acquired, frames>>

\* toggleCamera, up to the await of getUserMedia; the button is disabled while
\* loading && !error, and React runs the effects of the last render before the click
toggleCamera ==
  /\ mounted
  /\ effectEnabled = enabled
  /\ ~(loading /\ error = NoError)
  /\ IF enabled THEN stopCamera
     ELSE IF landmarker = "null"
     THEN IF error # NoError THEN Reload
          ELSE /\ lastOp' = OtherOp("other")
               /\ UNCHANGED <<mounted, uiVars, initPc, landmarker, cameraVars, effectEnabled,
                              loopVars, isFullscreen, gestureVars, frames, lastGesture, stoppedSince>>
     ELSE /\ acquired + gumPending < MaxStreams
          /\ loading' = TRUE
          /\ status' = "Requesting Camera..."
          /\ gumPending' = gumPending + 1
          /\ lastOp' = OtherOp("other")
          /\ UNCHANGED <<mounted, enabled, error, initPc, landmarker, srcObject, liveStreams,
                         acquired, loadPending, playPending, playing, effectEnabled,
                         loopVars, isFullscreen, gestureVars, frames, lastGesture, stoppedSince>>
  /\ UNCHANGED <<appVars, chatVars, displayVars, sceneVars, moreVars>>

\* getUserMedia resolves with a new stream; a stream already in srcObject is replaced, not stopped
GetUserMediaResolved ==
  /\ gumPending > 0
  /\ gumPending' = gumPending - 1
  /\ acquired' = acquired + 1
  /\ liveStreams' = liveStreams \cup {acquired + 1}
  /\ IF mounted
     THEN /\ srcObject' = acquired + 1
          /\ loadPending' = TRUE
          /\ playing' = FALSE
     ELSE UNCHANGED <<srcObject, loadPending, playing>>
  /\ lastOp' = OtherOp("other")
  /\ UNCHANGED <<mounted, uiVars, initPc, landmarker, playPending, effectEnabled, loopVars,
                 isFullscreen, gestureVars, frames, lastGesture, stoppedSince>>
  /\ UNCHANGED <<appVars, chatVars, displayVars, sceneVars, moreVars>>

\* getUserMedia rejects: the catch of toggleCamera
GetUserMediaRejected ==
  /\ gumPending > 0
  /\ gumPending' = gumPending - 1
  /\ IF mounted
     THEN /\ status' = "Camera Denied"
          /\ error' = "Camera permission denied"
          /\ loading' = FALSE
     ELSE UNCHANGED <<status, error, loading>>
  /\ lastOp' = OtherOp("other")
  /\ UNCHANGED <<mounted, enabled, initPc, landmarker, srcObject, liveStreams, acquired,
                 loadPending, playPending, playing, effectEnabled, loopVars, isFullscreen,
                 gestureVars, frames, lastGesture, stoppedSince>>
  /\ UNCHANGED <<appVars, chatVars, displayVars, sceneVars, moreVars>>

\* videoRef.current.onloadeddata: calls play()
LoadedData ==
  /\ mounted
  /\ loadPending
  /\ loadPending' = FALSE
  /\ playPending' = TRUE
  /\ lastOp' = OtherOp("other")
  /\ UNCHANGED <<mounted, uiVars, initPc, landmarker, srcObject, liveStreams, acquired, gumPending,
                 playing, effectEnabled, loopVars, isFullscreen, gestureVars, frames, lastGesture, stoppedSince>>
  /\ UNCHANGED <<appVars, chatVars, displayVars, sceneVars, moreVars>>

\* play() resolves: the then callback.  It cannot resolve once the source was
\* cleared or replaced by a new load.
PlayResolved ==
  /\ playPending
  /\ srcObject # 0
  /\ ~loadPending
  /\ playPending' = FALSE
  /\ playing' = TRUE
  /\ IF mounted
     THEN /\ enabled' = TRUE
          /\ loading' = FALSE
          /\ status' = "Searching..."
     ELSE UNCHANGED <<enabled, loading, status>>
  /\ lastOp' = OtherOp("other")
  /\ UNCHANGED <<mounted, error, initPc, landmarker, srcObject, liveStreams, acquired, gumPending,
                 loadPending, effectEnabled, loopVars, isFullscreen, gestureVars, frames, lastGesture, stoppedSince>>
  /\ UNCHANGED <<appVars, chatVars, displayVars, sceneVars, moreVars>>

\* play() rejects: the catch callback
PlayRejected ==
  /\ playPending
  /\ playPending' = FALSE
  /\ IF mounted
     THEN /\ error' = "Video play failed"
          /\ loading' = FALSE
     ELSE UNCHANGED <<error, loading>>
  /\ lastOp' = OtherOp("other")
  /\ UNCHANGED <<mounted, enabled, status, initPc, landmarker, srcObject, liveStreams, acquired,
                 gumPending, loadPending, playing, effectEnabled, loopVars, isFullscreen,
                 gestureVars, frames, lastGesture, stoppedSince>>
  /\ UNCHANGED <<appVars, chatVars, displayVars, sceneVars, moreVars>>

\* the component unmounts: the cleanups of the init effect and of the control-loop
\* effect; the throttle clock and the remembered hand position go with the component
Unmount ==
  /\ mounted
  /\ mounted' = FALSE
  /\ landmarker' = IF landmarker = "open" THEN "closed" ELSE landmarker
  /\ loopScheduled' = FALSE
  /\ pendingLoops' = AfterCancel
  /\ sinceLast' = ThrottleMs
  /\ lastGap' = ThrottleMs
  /\ lastPinchDist' = -1
  /\ lastCentroid' = NullCentroid
  /\ lastGesture' = "none"
  /\ stoppedSince' = FALSE
  /\ lastOp' = OtherOp("other")
  /\ UNCHANGED <<uiVars, initPc, cameraVars, effectEnabled, isFullscreen, controls,
                 wasDampingEnabled, isControlling, frames>>
  /\ UNCHANGED <<appVars, chatVars, displayVars, sceneVars, moreVars>>

\* App: setIsFullscreen, and the effect that stores the new targetControlsRef; followed
\* for as long as the controller can still sample a frame.  React runs the effects of
\* the last render before it handles a click.
SetIsFullscreen ==
  /\ mounted
  /\ effectEnabled = enabled
  /\ frames < MaxFrames
  /\ isFullscreen' = ~isFullscreen
  /\ lastOp' = OtherOp("other")
  /\ UNCHANGED <<mounted, uiVars, initPc, landmarker, cameraVars, effectEnabled, loopVars,
                 gestureVars, frames, lastGesture, stoppedSince>>
  /\ UNCHANGED <<appVars, chatVars, displayVars, sceneVars, moreVars>>

\* the polar angle a pointer drag to the top view leaves the camera at:
\* OrbitControls keeps minPolarAngle 0
PointerPhis == {0}

\* the user orbits the camera of the visible instance with the pointer (OrbitControls
\* listens on renderer.domElement) and animate() calls controls.update(); followed
\* for as long as the controller can still sample a frame
PointerOrbit ==
  /\ mounted
  /\ frames < MaxFrames
  /\ \E phi \in PointerPhis :
        /\ controls[TargetInstance].phi # phi
        /\ controls' = [controls EXCEPT ![TargetInstance] =
                          ControlsUpdate([controls[TargetInstance] EXCEPT !.phi = phi])]
  /\ lastOp' = OtherOp("other")
  /\ UNCHANGED <<mounted, uiVars, initPc, landmarker, cameraVars, effectEnabled, loopVars,
                 isFullscreen, lastPinchDist, lastCentroid, wasDampingEnabled, isControlling, frames, lastGesture, stoppedSince>>
  /\ UNCHANGED <<appVars, chatVars, displayVars, sceneVars, moreVars>>

\* the limits a controls object may be configured with (LungVisualizer keeps the
\* OrbitControls defaults, 0 and Infinity) and the distance the camera starts at
ControlsSetups ==
  { [minDistance |-> 0, maxDistance |-> Infinity, radius |-> InitialRadius],
    [minDistance |-> 20000, maxDistance |-> 30000, radius |-> InitialRadius] }

\* new OrbitControls(camera, ...) with camera.position.set(0, 0, 18)
NewControls(setup) ==
  [present |-> TRUE, id |-> 1, enableDamping |-> TRUE,
   minDistance |-> setup.minDistance, maxDistance |-> setup.maxDistance,
   radius |-> setup.radius, theta |-> 0, phi |-> Pi \div 2]

\* the state after the first render and the mount effects
InitHandWith(setup) ==
  /\ mounted = TRUE
  /\ enabled = FALSE
  /\ loading = TRUE
  /\ status = "Initializing AI..."
  /\ error = NoError
  /\ initPc = "vision"
  /\ landmarker = "null"
  /\ srcObject = 0
  /\ liveStreams = {}
  /\ acquired = 0
  /\ gumPending = 0
  /\ loadPending = FALSE
  /\ playPending = FALSE
  /\ playing = FALSE
  /\ effectEnabled = FALSE
  /\ loopScheduled = FALSE
  /\ pendingLoops = 0
  /\ sinceLast = ThrottleMs
  /\ lastGap = ThrottleMs
  /\ isFullscreen = FALSE
  /\ controls = [inst \in Instances |-> NewControls(setup)]
  /\ lastPinchDist = -1
  /\ lastCentroid = NullCentroid
  /\ wasDampingEnabled = TRUE
  /\ isControlling = FALSE
  /\ frames = 0
  /\ lastGesture = "none"
  /\ stoppedSince = FALSE
  /\ lastOp = OtherOp("other")

\* the controller at rest, for the specifications of the other components
InitHand == InitHandWith([minDistance |-> 0, maxDistance |-> Infinity, radius |-> InitialRadius])

InitHandAny == \E setup \in ControlsSetups : InitHandWith(setup)

NextHand ==
  \/ VisionResolved \/ LandmarkerCreated \/ InitFailed
  \/ toggleCamera \/ GetUserMediaResolved \/ GetUserMediaRejected
  \/ LoadedData \/ PlayResolved \/ PlayRejected
  \/ ControlLoopEffect \/ LoopTick
  \/ SetIsFullscreen \/ PointerOrbit \/ Unmount

(***************************************************************************)
(* LungVisualizer: the active label.  The scene effect depends on          *)
(* [activeLabel]: when the label changes its cleanup runs and its body     *)
(* builds the scene, the camera and the OrbitControls again.               *)
(***************************************************************************)
MaxControls == 3

NoLabel == "null"

\* the keys of the legend entries
LegendKeys == {"pathology", "lobes", "bronchi", "vasculature", "alveoli", "pleura",
               "fibrosisMap", "airflow"}

\* what the ray of a canvas click meets: the pathology mesh, another object, nothing
ClickHits == {"pathology", "other", "nothing"}

\* showOverlay: App shows the legend on the fullscreen instance only
ShowOverlay(inst) == inst = "full"

\* the scene effect run again for one instance: new geometry, camera.position.set(0, 0, 18),
\* new OrbitControls stored in externalControlsRef.current
RebuildScene(inst) ==
  /\ \E r \in RandomValues :
       geometry' = [geometry EXCEPT ![inst] = Built(r, r, r, r, r, r, r, r, r)]
  /\ controls' = [controls EXCEPT ![inst] =
        [NewControls([minDistance |-> controls[inst].minDistance,
                      maxDistance |-> controls[inst].maxDistance,
                      radius |-> InitialRadius])
           EXCEPT !.id = controls[inst].id + 1]]

\* setActiveLabel(label) and the render after it
SetActiveLabel(inst, label) ==
  /\ IF activeLabel[inst] = label
     THEN UNCHANGED <<activeLabel, geometry, controls>>
     ELSE /\ controls[inst].id < MaxControls
          /\ activeLabel' = [activeLabel EXCEPT ![inst] = label]
          /\ RebuildScene(inst)
  /\ lastOp' = OtherOp("other")
  /\ UNCHANGED <<mounted, uiVars, initPc, landmarker, cameraVars, effectEnabled, loopVars,
                 isFullscreen, lastPinchDist, lastCentroid, wasDampingEnabled, isControlling,
                 frames, lastGesture, stoppedSince>>
  /\ UNCHANGED <<appVars, chatVars, displayVars, moreVars>>

\* handleCanvasClick
handleCanvasClick(inst, hit) ==
  SetActiveLabel(inst, IF hit = "pathology" THEN "pathology" ELSE NoLabel)

\* handleLegendClick
handleLegendClick(inst, key) ==
  /\ ShowOverlay(inst)
  /\ SetActiveLabel(inst, IF activeLabel[inst] = key THEN NoLabel ELSE key)

\* both visualizers after their scene effect has run
InitSceneBuilt ==
  /\ geometry = [inst \in Instances |-> Built(250, 250, 250, 250, 250, 250, 250, 250, 250)]
  /\ activeLabel = [inst \in Instances |-> NoLabel]

NextView ==
  \/ \E inst \in Instances, hit \in ClickHits : handleCanvasClick(inst, hit)
  \/ \E inst \in Instances, key \in LegendKeys : handleLegendClick(inst, key)
  \/ PointerOrbit \/ SetIsFullscreen

(***************************************************************************)
(* App workflow and the two LungVisualizer instances of the results screen.*)
(***************************************************************************)

\* how many layer flags may differ from the initial state at once
MaxChanged == 2

\* the keys the LayerToggles panel offers
UiLayerKeys == {"leftLung", "rightLung", "bronchi", "alveoli", "vasculature", "pleura",
                "fibrosisMap", "airflow"}

\* number of flags in which L differs from the initial layer state
ChangedFlags(L) == Cardinality({k \in LayerKeys : L[k] # InitialLayers[k]})

\* the text handleUpload installs when its timer fires (first heading of the template)
HardcodedAnalysis == "* **Restrictive Physiology and Volume Loss:**"

\* files a change event of the file input can carry
FileCounts == {0, 1, 2}

\* layersRef.current as animate reads it: useRef(layers) kept in step with the prop
\* by the effect on [layers]; the stale variant never runs that effect
LayersRefStale == InitialLayers
LayersRefCurrent == layers

\* what animate writes to the meshes, the groups and the shader uniforms from L
Visible(L) ==
  [rightLung        |-> L["rightLung"],
   leftLung         |-> L["leftLung"],
   bronchi          |-> L["bronchi"],
   bronchioles      |-> L["bronchioles"],
   vessels          |-> L["vasculature"],
   airflow          |-> L["airflow"],
   uShowLobes       |-> L["lobes"],
   uShowAlveoli     |-> L["alveoli"],
   uShowFibrosisMap |-> L["fibrosisMap"],
   uMotion          |-> L["motion"]]

\* a LungVisualizer that was never mounted
Unmounted ==
  [mounted |-> FALSE, renderers |-> 0, raf |-> FALSE,
   shown |-> Visible([k \in LayerKeys |-> FALSE])]

\* one run of animate: reschedules itself, then applies the layer flags and renders
animate(v) == [v EXCEPT !.raf = TRUE, !.shown = Visible(LayersRefCurrent)]

\* the scene effect of LungVisualizer: creates the renderer and calls animate once
MountVisualizer(v) == animate([v EXCEPT !.mounted = TRUE, !.renderers = @ + 1])

\* the results screen renders both LungVisualizer elements, whatever isFullscreen is
ResultsVisualizers == Instances

\* onBegin of the landing screen
Begin ==
  /\ showLanding
  /\ showLanding' = FALSE
  /\ UNCHANGED <<appState, aiAnalysis, uploadTimers, viz, frameLayers>>
  /\ UNCHANGED <<appVars, chatVars, displayVars, sceneVars, handVars, unitVars>>

\* handleUpload: the analysis screen now, the results after 2500 ms
handleUpload ==
  /\ appState' = "analyzing"
  /\ uploadTimers' = uploadTimers + 1

\* handleFileChange: a change event of the file input of the upload screen; the
\* variant without the test of files.length comes first
handleFileChangeAlways(n) ==
  /\ ~showLanding
  /\ appState = "upload"
  /\ handleUpload
  /\ UNCHANGED <<showLanding, aiAnalysis, viz, frameLayers>>
  /\ UNCHANGED <<appVars, chatVars, displayVars, sceneVars, handVars, unitVars>>

handleFileChange(n) ==
  /\ ~showLanding
  /\ appState = "upload"
  /\ IF n > 0 THEN handleUpload ELSE UNCHANGED <<appState, uploadTimers>>
  /\ UNCHANGED <<showLanding, aiAnalysis, viz, frameLayers>>
  /\ UNCHANGED <<appVars, chatVars, displayVars, sceneVars, handVars, unitVars>>

\* the timer of handleUpload fires: the text is stored and the results screen mounts
UploadTimerFires ==
  /\ uploadTimers > 0
  /\ uploadTimers' = uploadTimers - 1
  /\ aiAnalysis' = HardcodedAnalysis
  /\ appState' = "results"
  /\ viz' = [inst \in Instances |->
               IF inst \in ResultsVisualizers /\ ~viz[inst].mounted
                 THEN MountVisualizer(viz[inst]) ELSE viz[inst]]
  /\ frameLayers' = layers
  /\ UNCHANGED showLanding
  /\ UNCHANGED <<appVars, chatVars, displayVars, sceneVars, handVars, unitVars>>

\* the expand button of the preview and the close button of the overlay
ExpandOrClose ==
  /\ ~showLanding
  /\ appState = "results"
  /\ SetIsFullscreen

\* a click in the LayerToggles panel, which only the fullscreen overlay shows
ToggleLayerInResults ==
  /\ ~showLanding
  /\ appState = "results"
  /\ isFullscreen
  /\ \E key \in UiLayerKeys :
       /\ ChangedFlags(Toggled(layers, key)) <= MaxChanged
       /\ toggleLayer(key)

\* one animation frame of the page: every pending animate callback runs
AnimationFrame ==
  /\ \E inst \in Instances : viz[inst].raf
  /\ viz' = [inst \in Instances |-> IF viz[inst].raf THEN animate(viz[inst]) ELSE viz[inst]]
  /\ frameLayers' = layers
  /\ UNCHANGED <<showLanding, appState, aiAnalysis, uploadTimers>>
  /\ UNCHANGED <<appVars, chatVars, displayVars, sceneVars, handVars, unitVars>>

InitFlow ==
  /\ showLanding = TRUE
  /\ appState = "upload"
  /\ aiAnalysis = ""
  /\ uploadTimers = 0
  /\ viz = [inst \in Instances |-> Unmounted]
  /\ frameLayers = InitialLayers

NextFlow ==
  \/ Begin
  \/ \E n \in FileCounts : handleFileChange(n)
  \/ UploadTimerFires
  \/ ExpandOrClose \/ ToggleLayerInResults \/ AnimationFrame

(***************************************************************************)
(* geminiService: analyzeLungProgression.                                  *)
(***************************************************************************)
MaxCalls == 2

CallIds == 1..MaxCalls

ViewModes == {"DOCTOR", "PATIENT"}

\* process.env.API_KEY of the build: absent, or some key
ApiKeys == {"", "test-key"}

NoKeyText      == "API Key not configured. Unable to generate AI insights."
UnavailableText == "Analysis unavailable."
FailureText    == "Unable to generate analysis at this time."

\* what generateContent can resolve to: response.text undefined, empty, or a text
Responses ==
  { [hasText |-> FALSE, text |-> ""],
    [hasText |-> TRUE,  text |-> ""],
    [hasText |-> TRUE,  text |-> "Volume fell by 13%; stiffness tripled."],
    [hasText |-> TRUE,  text |-> " "] }

\* mode === ViewMode.DOCTOR ? ... : ...
SystemInstruction(mode) == IF mode = "DOCTOR" THEN "pulmonologist" ELSE "patient"

\* response.text || "Analysis unavailable."; the raw variant returns response.text
TextOrRaw(resp, fallback) == resp.text
TextOr(resp, fallback) ==
  IF resp.hasText /\ resp.text # "" THEN resp.text ELSE fallback

IdleCall ==
  [pc |-> "idle", instruction |-> "none", outcome |-> "none", result |-> ""]

\* a call of analyzeLungProgression up to its first await
CallAnalyze(id, mode) ==
  /\ calls[id].pc = "idle"
  /\ IF apiKey = ""
       THEN /\ calls' = [calls EXCEPT ![id] = [@ EXCEPT !.pc = "resolved", !.result = NoKeyText]]
            /\ UNCHANGED requests
       ELSE /\ calls' = [calls EXCEPT ![id] = [@ EXCEPT !.pc = "awaiting",
                                                    !.instruction = SystemInstruction(mode)]]
            /\ requests' = requests + 1
  /\ UNCHANGED apiKey
  /\ UNCHANGED <<appVars, chatVars, displayVars, sceneVars, handVars, flowVars, scanVars, guideVars, panelVars>>

\* generateContent resolves: the try block returns
RequestResolves(id, resp) ==
  /\ calls[id].pc = "awaiting"
  /\ calls' = [calls EXCEPT ![id] = [@ EXCEPT !.pc = "resolved", !.outcome = "response",
                                              !.result = TextOr(resp, UnavailableText)]]
  /\ UNCHANGED <<apiKey, requests>>
  /\ UNCHANGED <<appVars, chatVars, displayVars, sceneVars, handVars, flowVars, scanVars, guideVars, panelVars>>

\* generateContent rejects: the catch block returns
RequestFails(id) ==
  /\ calls[id].pc = "awaiting"
  /\ calls' = [calls EXCEPT ![id] = [@ EXCEPT !.pc = "resolved", !.outcome = "failed",
                                              !.result = FailureText]]
  /\ UNCHANGED <<apiKey, requests>>
  /\ UNCHANGED <<appVars, chatVars, displayVars, sceneVars, handVars, flowVars, scanVars, guideVars, panelVars>>

InitServiceWith(key) ==
  /\ apiKey = key
  /\ calls = [id \in CallIds |-> IdleCall]
  /\ requests = 0

\* the service at rest, for the specifications of the other components
InitService == InitServiceWith("")

InitServiceAny == \E key \in ApiKeys : InitServiceWith(key)

NextService ==
  \/ \E id \in CallIds, mode \in ViewModes : CallAnalyze(id, mode)
  \/ \E id \in CallIds, resp \in Responses : RequestResolves(id, resp)
  \/ \E id \in CallIds : RequestFails(id)

(***************************************************************************)
(* AnalysisScreen: the scan animation and its timers.                      *)
(***************************************************************************)
MaxDetections == 4

\* (prev + 1) % 100
ScanSteps == 100

\* Math.random() in thousandths: below and above the 0.7 threshold
DetectThreshold == 700
DetectDraws == {500, 900}

\* 20 + Math.random() * 60, for the draws of RandomValues
ScanCoord(r) == 20 + (r * 60) \div 1000

BullousDetection == [id |-> 999, x |-> 35, y |-> 55, label |-> "Bullous Emphysema"]

\* prev.slice(-3)
LastThree(s) == IF Len(s) <= 3 THEN s ELSE SubSeq(s, Len(s) - 2, Len(s))

\* the updater without the remainder
NextPositionNoWrap(prev) == prev + 1

\* (prev) => (prev + 1) % 100
NextPosition(prev) == (prev + 1) % ScanSteps

\* the 20 ms interval
ScanTick ==
  /\ scanInterval
  /\ IF scanMounted
       THEN scanPosition' = NextPosition(scanPosition)
       ELSE UNCHANGED scanPosition
  /\ UNCHANGED <<scanMounted, detections, phase, scanInterval, timeout1, timeout2,
                 detectIntervals, made>>
  /\ UNCHANGED <<appVars, chatVars, displayVars, sceneVars, handVars, flowVars, serviceVars, guideVars, panelVars>>

\* the 2000 ms timeout: phase 1, and the 400 ms interval starts
Timeout1Fires ==
  /\ timeout1
  /\ timeout1' = FALSE
  /\ phase' = IF scanMounted THEN 1 ELSE phase
  /\ detectIntervals' = detectIntervals + 1
  /\ UNCHANGED <<scanMounted, scanPosition, detections, scanInterval, timeout2, made>>
  /\ UNCHANGED <<appVars, chatVars, displayVars, sceneVars, handVars, flowVars, serviceVars, guideVars, panelVars>>

\* the 400 ms interval: a new detection when the draw exceeds 0.7
DetectTick(draw, rx, ry) ==
  /\ detectIntervals > 0
  /\ IF draw > DetectThreshold
       THEN /\ made < MaxDetections
            /\ made' = made + 1
            /\ detections' =
                 IF scanMounted
                   THEN Append(LastThree(detections),
                               [id |-> made + 1, x |-> ScanCoord(rx), y |-> ScanCoord(ry),
                                label |-> ""])
                   ELSE detections
       ELSE UNCHANGED <<made, detections>>
  /\ UNCHANGED <<scanMounted, scanPosition, phase, scanInterval, timeout1, timeout2,
                 detectIntervals>>
  /\ UNCHANGED <<appVars, chatVars, displayVars, sceneVars, handVars, flowVars, serviceVars, guideVars, panelVars>>

\* the 5500 ms timeout, which the timer queue runs after the 2000 ms one
Timeout2Fires ==
  /\ timeout2
  /\ ~timeout1
  /\ timeout2' = FALSE
  /\ phase' = IF scanMounted THEN 2 ELSE phase
  /\ detections' = IF scanMounted THEN <<BullousDetection>> ELSE detections
  /\ UNCHANGED <<scanMounted, scanPosition, scanInterval, timeout1, detectIntervals, made>>
  /\ UNCHANGED <<appVars, chatVars, displayVars, sceneVars, handVars, flowVars, serviceVars, guideVars, panelVars>>

\* the parent removes the screen: the cleanup of the effect clears the 20 ms interval
\* and the two timeouts; the function the 2000 ms callback returns is never called
UnmountScan ==
  /\ scanMounted
  /\ scanMounted' = FALSE
  /\ scanInterval' = FALSE
  /\ timeout1' = FALSE
  /\ timeout2' = FALSE
  /\ UNCHANGED <<scanPosition, detections, phase, detectIntervals, made>>
  /\ UNCHANGED <<appVars, chatVars, displayVars, sceneVars, handVars, flowVars, serviceVars, guideVars, panelVars>>

\* the screen after its first render and effect
InitScan ==
  /\ scanMounted = TRUE
  /\ scanPosition = 0
  /\ detections = <<>>
  /\ phase = 0
  /\ scanInterval = TRUE
  /\ timeout1 = TRUE
  /\ timeout2 = TRUE
  /\ detectIntervals = 0
  /\ made = 0

NextScan ==
  \/ ScanTick \/ Timeout1Fires \/ Timeout2Fires \/ UnmountScan
  \/ \E draw \in DetectDraws, rx \in RandomValues, ry \in RandomValues : DetectTick(draw, rx, ry)

(***************************************************************************)
(* LearningGuide: the scripted walkthrough.                                *)
(***************************************************************************)
MaxExits == 2
MaxGuideToggles == 2

\* requiredLayers of the four STEPS, as functions on the keys each one lists
STEPS ==
  << [leftLung |-> TRUE, rightLung |-> TRUE, lobes |-> TRUE, pleura |-> TRUE,
      bronchi |-> FALSE, airflow |-> FALSE, fibrosisMap |-> FALSE, pathology |-> FALSE],
     [leftLung |-> FALSE, rightLung |-> FALSE, lobes |-> FALSE, bronchi |-> TRUE,
      bronchioles |-> TRUE, airflow |-> FALSE],
     [airflow |-> TRUE, bronchi |-> TRUE, bronchioles |-> FALSE],
     [airflow |-> FALSE, bronchi |-> FALSE, leftLung |-> TRUE, rightLung |-> TRUE,
      fibrosisMap |-> TRUE, pathology |-> TRUE] >>

\* STEPS[currentStepIndex].requiredLayers, for the 0-based index of the code
RequiredLayers(index) == STEPS[index + 1]

\* { ...prev, ...required }; the variant that keeps only the listed flags comes first
MergedListedOnly(prev, required) ==
  [k \in DOMAIN prev \cup DOMAIN required |-> IF k \in DOMAIN required THEN required[k] ELSE FALSE]
Merged(prev, required) ==
  [k \in DOMAIN prev \cup DOMAIN required |-> IF k \in DOMAIN required THEN required[k] ELSE prev[k]]

\* layer states the owner of the guide can hold when the guide mounts
GuideBases ==
  { InitialLayers, [k \in LayerKeys |-> TRUE], [k \in LayerKeys |-> FALSE] }

\* handleNext, and the effect on [currentStepIndex] that follows the render
handleNext ==
  /\ IF currentStepIndex < Len(STEPS) - 1
       THEN /\ currentStepIndex' = currentStepIndex + 1
            /\ guideLayers' = Merged(guideLayers, RequiredLayers(currentStepIndex + 1))
            /\ UNCHANGED exits
       ELSE /\ exits < MaxExits
            /\ exits' = exits + 1
            /\ UNCHANGED <<currentStepIndex, guideLayers>>
  /\ lastGuide' = [op |-> "next", from |-> currentStepIndex, before |-> guideLayers,
                   exits |-> exits]
  /\ UNCHANGED guideToggles
  /\ UNCHANGED <<appVars, chatVars, displayVars, sceneVars, handVars, flowVars, serviceVars, scanVars, panelVars>>

\* the close button: onExit
CloseGuide ==
  /\ exits < MaxExits
  /\ exits' = exits + 1
  /\ lastGuide' = [op |-> "close", from |-> currentStepIndex, before |-> guideLayers,
                   exits |-> exits]
  /\ UNCHANGED <<currentStepIndex, guideLayers, guideToggles>>
  /\ UNCHANGED <<appVars, chatVars, displayVars, sceneVars, handVars, flowVars, serviceVars, scanVars, panelVars>>

\* the owner of the layers changes a flag while the guide is shown
OwnerTogglesLayer(key) ==
  /\ guideToggles < MaxGuideToggles
  /\ guideToggles' = guideToggles + 1
  /\ guideLayers' = [guideLayers EXCEPT ![key] = ~guideLayers[key]]
  /\ lastGuide' = [op |-> "toggle", from |-> currentStepIndex, before |-> guideLayers,
                   exits |-> exits]
  /\ UNCHANGED <<currentStepIndex, exits>>
  /\ UNCHANGED <<appVars, chatVars, displayVars, sceneVars, handVars, flowVars, serviceVars, scanVars, panelVars>>

\* the guide after its first render and the first run of the effect
InitGuideWith(base) ==
  /\ currentStepIndex = 0
  /\ guideLayers = Merged(base, RequiredLayers(0))
  /\ exits = 0
  /\ guideToggles = 0
  /\ lastGuide = [op |-> "mount", from |-> 0, before |-> base, exits |-> 0]

\* the guide at rest, for the specifications of the other components
InitGuide == InitGuideWith(InitialLayers)

InitGuideAny == \E base \in GuideBases : InitGuideWith(base)

NextGuide ==
  \/ handleNext \/ CloseGuide
  \/ \E key \in LayerKeys : OwnerTogglesLayer(key)

\* the workflow and the standalone units at rest
(***************************************************************************)
(* AnalysisPanel: the fetch effect.  The parent owns the current time      *)
(* point and the view mode; each fetch is a call of analyzeLungProgression *)
(* whose promise settles when the network answers, in any order.           *)
(***************************************************************************)
MaxFetches == 3

\* the ids of the time points of the case
PointIds == {"tp-0", "tp-1"}

NoAnalysis == [req |-> 0, point |-> "", mode |-> ""]

\* the string the k-th call resolves with: the answer to its own arguments
ResultOf(k) == [req |-> k, point |-> fetches[k].point, mode |-> fetches[k].mode]

\* the effect on [currentPoint.id, viewMode], run with the props of the render
FetchEffect(point, mode) ==
  IF prevPointIdRef = point /\ prevModeRef = mode
    THEN UNCHANGED <<panelLoading, fetches, prevPointIdRef, prevModeRef>>
    ELSE /\ panelLoading' = TRUE
         /\ fetches' = Append(fetches, [point |-> point, mode |-> mode, pending |-> TRUE])
         /\ prevPointIdRef' = point
         /\ prevModeRef' = mode

\* the parent renders the panel with another time point or view mode
PropsChange(point, mode) ==
  /\ Len(fetches) < MaxFetches
  /\ <<point, mode>> # <<currentPointId, viewMode>>
  /\ currentPointId' = point
  /\ viewMode' = mode
  /\ FetchEffect(point, mode)
  /\ UNCHANGED panelAnalysis
  /\ UNCHANGED <<appVars, chatVars, displayVars, sceneVars, handVars, flowVars, serviceVars, scanVars, guideVars>>

\* the promise of the k-th fetchAnalysis settles: setAnalysis(result), then finally setLoading(false)
FetchSettles(k) ==
  /\ k \in 1..Len(fetches)
  /\ fetches[k].pending
  /\ panelAnalysis' = ResultOf(k)
  /\ panelLoading' = FALSE
  /\ fetches' = [fetches EXCEPT ![k].pending = FALSE]
  /\ UNCHANGED <<currentPointId, viewMode, prevPointIdRef, prevModeRef>>
  /\ UNCHANGED <<appVars, chatVars, displayVars, sceneVars, handVars, flowVars, serviceVars, scanVars, guideVars>>

\* the panel after its first render and the first run of the effect
InitPanelWith(point, mode) ==
  /\ currentPointId = point
  /\ viewMode = mode
  /\ prevPointIdRef = point
  /\ prevModeRef = mode
  /\ panelAnalysis = NoAnalysis
  /\ panelLoading = TRUE
  /\ fetches = << [point |-> point, mode |-> mode, pending |-> TRUE] >>

InitPanel == InitPanelWith("tp-0", "DOCTOR")

InitPanelAny == \E point \in PointIds, mode \in ViewModes : InitPanelWith(point, mode)

NextPanel ==
  \/ \E point \in PointIds, mode \in ViewModes : PropsChange(point, mode)
  \/ \E k \in 1..MaxFetches : FetchSettles(k)

InitMore == InitFlow /\ InitService /\ InitScan /\ InitGuide /\ InitPanel

(***************************************************************************)
(* Claims.                                                                 *)
(***************************************************************************)

\* C1: after toggleLayer(key) the flag key is the negation of its value before the
\* call and every other flag has the value it had before the call.
C1_ToggleFlipsOnlyKey ==
  lastToggle.key # "none" =>
    /\ layers[lastToggle.key] = ~lastToggle.before[lastToggle.key]
    /\ \A k \in LayerKeys \ {lastToggle.key} : layers[k] = lastToggle.before[k]

\* a toggle of fibrosisMap (off at the start) made when leftLung had been switched off
C1_Witness ==
  /\ lastToggle.key = "fibrosisMap"
  /\ layers["fibrosisMap"]
  /\ ~lastToggle.before["leftLung"]
  /\ ~layers["leftLung"]

UserTexts == LET u == SelectSeq(messages, LAMBDA m : m.sender = "user")
             IN [k \in 1..Len(u) |-> u[k].text]

\* the AI replies, in order: the AI messages after the greeting
AiReplies == LET a == SelectSeq(messages, LAMBDA m : m.sender = "ai")
             IN [k \in 1..(Len(a) - 1) |-> a[k + 1].text]

\* C2: the reply to a message whose text is exactly the i-th preset question is the
\* i-th KNOWLEDGE_BASE answer, not another question's answer and not the fallback,
\* whatever was sent before it.
C2_PresetGetsOwnAnswer ==
  \A k \in 1..Len(AiReplies) : \A i \in 1..Len(PRESET_QUESTIONS) :
    UserTexts[k] = PRESET_QUESTIONS[i] =>
      /\ AiReplies[k] = KNOWLEDGE_BASE[i]
      /\ AiReplies[k] # Fallback
      /\ \A j \in 1..Len(KNOWLEDGE_BASE) : j # i => AiReplies[k] # KNOWLEDGE_BASE[j]

\* the eighth preset question answered as the second message, after a typed
\* message that got another answer
C2_Witness ==
  /\ Len(AiReplies) = 2
  /\ UserTexts[1] \in TypedTexts
  /\ AiReplies[1] # KNOWLEDGE_BASE[8]
  /\ UserTexts[2] = PRESET_QUESTIONS[8]
  /\ AiReplies[2] = KNOWLEDGE_BASE[8]

\* C3: for a text of n well-formed segments parseFindings returns n entries in input
\* order, entry i carrying the title and the body of segment i unchanged.
C3_ParseKeepsEverySegment ==
  rendered =>
    /\ Len(findings) = Len(segments)
    /\ \A i \in 1..Len(findings) :
         /\ findings[i].title = segments[i].title
         /\ findings[i].body = segments[i].body

RECURSIVE VisibleText(_)
VisibleText(ps) == IF ps = <<>> THEN <<>> ELSE Head(ps).text \o VisibleText(Tail(ps))

\* C4: the visible text of the pieces of highlightNumbers, wrapped and unwrapped,
\* concatenated in order, is the text it was given.
C4_HighlightKeepsText ==
  rendered => \A i \in 1..Len(findings) : VisibleText(pieces[i]) = findings[i].body

\* a body with two highlighted numbers and text left plain between them
C4_Witness ==
  /\ rendered
  /\ \E i \in 1..Len(findings) : \E a, b, c \in 1..Len(pieces[i]) :
       /\ a < b /\ b < c
       /\ pieces[i][a].wrapped /\ pieces[i][c].wrapped
       /\ ~pieces[i][b].wrapped /\ pieces[i][b].text # <<>>
       /\ pieces[i][a].text # pieces[i][c].text

\* position in the text of the first character of piece k
PieceStart(ps, k) == 1 + Len(VisibleText(SubSeq(ps, 1, k - 1)))

\* a number starts at a: a digit not preceded by a digit or a dot
NumberStartsAt(s, a) == IsDigit(s[a]) /\ (a = 1 \/ ~(IsDigit(s[a - 1]) \/ s[a - 1] = "."))

\* the position after the percentage, or else the decimal number, that starts at a
NumberEnd(s, a) == IF AltPercent(s, a) # 0 THEN AltPercent(s, a) ELSE NumEnd(s, a)

\* C5: every decimal number or percentage of the text lies inside one highlighted
\* piece, and no piece left plain contains a digit.
C5_HighlightWrapsEveryNumber ==
  rendered => \A i \in 1..Len(findings) :
    LET s  == findings[i].body
        ps == pieces[i]
    IN /\ \A k \in 1..Len(ps) : ~ps[k].wrapped => ~HasDigit(ps[k].text)
       /\ \A a \in 1..Len(s) : NumberStartsAt(s, a) =>
            \E k \in 1..Len(ps) :
              /\ ps[k].wrapped
              /\ PieceStart(ps, k) <= a
              /\ NumberEnd(s, a) <= PieceStart(ps, k) + Len(ps[k].text)

\* the controls the gesture controller acts on
Target == controls[TargetInstance]

\* the last operation was a frame of predictWebcam that got past detection
ProcessedFrame == lastOp.op = "frame" /\ lastOp.processed

\* ... on which a hand was detected, pinching
PinchFrame == ProcessedFrame /\ lastOp.det.kind = "hand" /\ IsPinching(lastOp.det.landmarks)

\* ... on which a hand was detected, not pinching
RotateFrame == ProcessedFrame /\ lastOp.det.kind = "hand" /\ ~IsPinching(lastOp.det.landmarks)

\* C6: two builds of the LungVisualizer scene from the same metrics and layers
\* produce identical geometry (branch directions, pathology mesh vertices, airflow
\* particle start state).
C6_BuildsAgree ==
  (geometry["normal"].built /\ geometry["full"].built) => geometry["normal"] = geometry["full"]

\* C7: after every processed frame in which the hand is pinching, the camera's
\* distance from the orbit target lies within [controls.minDistance,
\* controls.maxDistance].
C7_PinchKeepsDistanceInRange ==
  PinchFrame => (Target.minDistance <= Target.radius /\ Target.radius <= Target.maxDistance)

\* a pinching frame zoomed out against a finite maxDistance
C7_Witness ==
  PinchFrame /\ frames = 2 /\ Target.maxDistance # Infinity /\ Target.radius = Target.maxDistance

\* C8 as stated: after every processed rotate frame the camera's polar angle lies
\* within [0.01, pi - 0.01].
C8_RotateKeepsPolarInRange ==
  RotateFrame => (PhiMin <= Target.phi /\ Target.phi <= PhiMax)

\* C8 as amended: a processed rotate frame either leaves the polar angle as it found
\* it or leaves it within [0.01, pi - 0.01].
C8_RotateNeverLeavesPolarRange ==
  RotateFrame => (Target.phi = lastOp.phi \/ (PhiMin <= Target.phi /\ Target.phi <= PhiMax))

\* a rotate frame moved the polar angle and the clamp stopped it short of the pole
C8_Witness ==
  RotateFrame /\ Target.phi # lastOp.phi /\ Target.phi \in {PhiMin, PhiMax}

\* C9: the status shown after a processed frame is decided by that frame's detection
\* alone: ZOOMING iff a hand is detected and pinching, ROTATING iff a hand is
\* detected and not pinching, Searching... iff no hand is detected.
C9_ModeFollowsDetection ==
  (ProcessedFrame /\ Target.present) =>
    /\ (status = "ZOOMING" <=> PinchFrame)
    /\ (status = "ROTATING" <=> RotateFrame)
    /\ (status = "Searching..." <=> lastOp.det.kind = "nohand")

\* a frame that found the status ZOOMING and, the hand open, left it ROTATING
C9_Witness ==
  RotateFrame /\ lastOp.status = "ZOOMING" /\ status = "ROTATING"

\* C10: after stopCamera runs, or after the controller is unmounted, no media stream
\* the controller acquired is still live.
C10_StreamReleased ==
  (lastOp.op = "stopCamera" \/ ~mounted) => liveStreams = {}


\* C11: at most one camera-permission request is in flight at any time, and the
\* controller never holds two media streams.
C11_SingleCameraRequest ==
  gumPending <= 1 /\ Cardinality(liveStreams) <= 1

\* C12: at most one WebGL renderer is live at any time, in every workflow state and
\* whether or not the fullscreen overlay is shown.
C12_SingleRenderer ==
  viz["normal"].renderers + viz["full"].renderers <= 1

\* C13: analyzeLungProgression never rejects and every settled call holds a non-empty
\* string; without an API key no outbound request is issued and the result is the
\* fixed fallback text; a failed request gives the fixed failure text.
C13_AnalyzeAlwaysAnswers ==
  /\ apiKey = "" => requests = 0
  /\ \A id \in CallIds :
       /\ calls[id].pc # "rejected"
       /\ calls[id].pc = "resolved" =>
            /\ calls[id].result # ""
            /\ apiKey = "" => calls[id].result = NoKeyText
            /\ calls[id].outcome = "failed" => calls[id].result = FailureText

C13_Witness ==
  /\ apiKey # ""
  /\ requests = 2
  /\ calls[1].pc = "resolved" /\ calls[1].outcome = "failed"
  /\ calls[2].pc = "resolved" /\ calls[2].result = UnavailableText

\* C14: once camera permission is denied the controller is not enabled and not loading,
\* shows "Camera Denied" with the error set, and the next click on the control button
\* reloads the page.
C14_DeniedThenReload ==
  /\ [](status = "Camera Denied" => ~enabled /\ ~loading /\ error # NoError)
  /\ [][(status = "Camera Denied" /\ toggleCamera) => Reload]_vars

\* C15: a frame on which detection throws changes nothing: the camera of both
\* instances, the remembered pinch distance and centroid, the controlling and damping
\* state and the displayed status are as before, and the loop is scheduled again.
C15_ThrowSkipsFrame ==
  [][(frames' = frames + 1 /\ lastOp'.det.kind = "throws") =>
       /\ controls' = controls
       /\ lastPinchDist' = lastPinchDist
       /\ lastCentroid' = lastCentroid
       /\ isControlling' = isControlling
       /\ wasDampingEnabled' = wasDampingEnabled
       /\ status' = status
       /\ loopScheduled']_vars

C15_Witness ==
  /\ lastOp.op = "frame"
  /\ lastOp.det.kind = "throws"
  /\ isControlling
  /\ lastPinchDist # -1
  /\ loopScheduled

\* C16: once a component's teardown has run, none of its repeating or delayed
\* callbacks is still scheduled: the timers of AnalysisScreen, the sampling loop of
\* HandGestureController and the animation frame of each LungVisualizer.
C16_NoCallbackAfterTeardown ==
  /\ ~scanMounted => ~scanInterval /\ ~timeout1 /\ ~timeout2 /\ detectIntervals = 0
  /\ ~mounted => pendingLoops = 0
  /\ \A inst \in Instances : ~viz[inst].mounted => ~viz[inst].raf

\* C17: the workflow state only moves upload -> analyzing -> results; a file-change
\* event with a file moves upload to analyzing and one without files leaves upload;
\* results is never left; every analyzing state is followed by results with a
\* non-empty analysis text.
C17_WorkflowOrder ==
  /\ [][/\ appState' # appState =>
              \/ appState = "upload" /\ appState' = "analyzing"
              \/ appState = "analyzing" /\ appState' = "results"
        /\ \A n \in FileCounts :
              handleFileChange(n) => appState' = (IF n > 0 THEN "analyzing" ELSE "upload")]_vars
  /\ (appState = "analyzing") ~> (appState = "results" /\ aiAnalysis # "")

C17_Witness ==
  /\ appState = "results"
  /\ aiAnalysis = HardcodedAnalysis
  /\ uploadTimers = 0
  /\ isFullscreen

\* C18: predictWebcam is called only when at least 30 ms have passed since the
\* previous call, and only while control is enabled, the model is loaded and the
\* video has data and is not paused; never more than one sampling loop is scheduled.
\* (The step that calls predictWebcam changes none of enabled, landmarker, playing.)
C18_ThrottledSingleLoop ==
  /\ pendingLoops <= 1
  /\ lastOp.op = "frame" =>
       /\ lastGap >= ThrottleMs
       /\ enabled
       /\ landmarker = "open"
       /\ playing

C18_Witness ==
  /\ frames = 2
  /\ lastOp.op = "frame"
  /\ sinceLast = 0
  /\ pendingLoops = 1
  /\ acquired = 2

\* C19: after each animation frame every mounted visualizer shows the right lung, left
\* lung, bronchi, bronchioles, vessels and airflow particles exactly when the layer
\* flag current at that frame is set, and its lobes, alveoli, fibrosisMap and motion
\* shader switches equal their flags.
C19_FrameShowsLayers ==
  \A inst \in Instances :
    viz[inst].mounted =>
      /\ viz[inst].shown.rightLung = frameLayers["rightLung"]
      /\ viz[inst].shown.leftLung = frameLayers["leftLung"]
      /\ viz[inst].shown.bronchi = frameLayers["bronchi"]
      /\ viz[inst].shown.bronchioles = frameLayers["bronchioles"]
      /\ viz[inst].shown.vessels = frameLayers["vasculature"]
      /\ viz[inst].shown.airflow = frameLayers["airflow"]
      /\ viz[inst].shown.uShowLobes = frameLayers["lobes"]
      /\ viz[inst].shown.uShowAlveoli = frameLayers["alveoli"]
      /\ viz[inst].shown.uShowFibrosisMap = frameLayers["fibrosisMap"]
      /\ viz[inst].shown.uMotion = frameLayers["motion"]

C19_Witness ==
  /\ viz["full"].mounted
  /\ frameLayers = layers
  /\ ChangedFlags(layers) = 2
  /\ ~layers["airflow"] /\ ~viz["full"].shown.airflow
  /\ layers["fibrosisMap"] /\ viz["normal"].shown.uShowFibrosisMap

\* C20: the walkthrough index stays within 0..3; a Next before the last step moves
\* to the following step, where every flag the step lists takes the listed value and
\* every other flag keeps the value it had; a Next on the last step calls onExit and
\* changes neither the step nor the flags.
C20_WalkthroughInOrder ==
  /\ currentStepIndex \in 0..3
  /\ lastGuide.op \in {"mount", "next"} =>
       \A k \in DOMAIN guideLayers :
         guideLayers[k] =
           IF lastGuide.op = "next" /\ lastGuide.from = 3 THEN lastGuide.before[k]
           ELSE IF k \in DOMAIN RequiredLayers(currentStepIndex)
                  THEN RequiredLayers(currentStepIndex)[k]
                  ELSE lastGuide.before[k]
  /\ lastGuide.op = "next" =>
       IF lastGuide.from < 3
         THEN currentStepIndex = lastGuide.from + 1 /\ exits = lastGuide.exits
         ELSE currentStepIndex = 3 /\ exits = lastGuide.exits + 1
  /\ lastGuide.op = "mount" => currentStepIndex = 0

C20_Witness ==
  /\ currentStepIndex = 3
  /\ lastGuide.op = "next"
  /\ lastGuide.from = 2
  /\ guideLayers["pathology"] /\ guideLayers["fibrosisMap"] /\ ~guideLayers["airflow"]
  /\ guideLayers["vasculature"] # InitialLayers["vasculature"]

\* some preset question contains the text or is contained in it, case-insensitively
SomeQuestionMatches(text) ==
  \E i \in 1..Len(PRESET_QUESTIONS) :
    \/ Includes(ToLowerCase(text), ToLowerCase(PRESET_QUESTIONS[i]))
    \/ Includes(ToLowerCase(PRESET_QUESTIONS[i]), ToLowerCase(text))

\* C21: every user message has non-blank text (a blank handleSend appends nothing);
\* the k-th AI reply answers the k-th user message, with the fallback text when no
\* preset question contains or is contained in it and with the answer of such a
\* question otherwise; there are never more replies than user messages; and every
\* user message is eventually followed by its reply.
C21_EverySendAnswered ==
  /\ [](/\ \A k \in 1..Len(UserTexts) : \E i \in 1..Len(UserTexts[k]) : ~IsWhite(UserTexts[k][i])
        /\ Len(UserTexts) = sends
        /\ Len(AiReplies) <= Len(UserTexts)
        /\ \A k \in 1..Len(AiReplies) :
             IF SomeQuestionMatches(UserTexts[k])
               THEN \E i \in 1..Len(PRESET_QUESTIONS) :
                      /\ Matches(UserTexts[k], PRESET_QUESTIONS[i])
                      /\ AiReplies[k] = KNOWLEDGE_BASE[i]
               ELSE AiReplies[k] = Fallback)
  /\ \A k \in 1..MaxSends : (Len(UserTexts) >= k) ~> (Len(AiReplies) >= k)

\* a typed text no question matches and a preset question, both sent before either
\* reply, then answered in that order, after a blank submit that changed nothing
C21_Witness ==
  /\ Len(AiReplies) = 2
  /\ Len(messages) = 5
  /\ messages[2].sender = "user" /\ messages[3].sender = "user"
  /\ UserTexts[1] = <<"x","y","z">>
  /\ AiReplies[1] = Fallback
  /\ UserTexts[2] = PRESET_QUESTIONS[4]
  /\ AiReplies[2] = KNOWLEDGE_BASE[4]

\* C29: the typing indicator is on exactly while a sent question waits for its reply.
C29_TypingIffPending == isTyping <=> (pending # <<>>)

\* C22: the phase is 0, 1 or 2 and no step lowers it: it leaves 0 only for 1 (the
\* first timer) and 1 only for 2, and 2 is kept; the scan position is in 0..99 and
\* a tick moves it to the next value, from 99 to 0.
C22_PhaseAndPositionAdvance ==
  /\ [](phase \in {0, 1, 2} /\ scanPosition \in 0..99)
  /\ [][/\ phase' >= phase
        /\ phase' # phase => phase' = phase + 1 /\ (phase = 0 <=> timeout1)
        /\ scanPosition' # scanPosition =>
             scanPosition' = IF scanPosition = 99 THEN 0 ELSE scanPosition + 1]_vars

\* the end of a sweep, 99 ticks after the mount, with both timers fired and the
\* 20 ms interval still running: the next tick is the one from 99 to 0
C22_Witness ==
  /\ phase = 2
  /\ scanPosition = 99
  /\ scanInterval
  /\ detections = <<BullousDetection>>
  /\ scanMounted

\* C30: in phase 2 the detections are exactly the one labelled 'Bullous Emphysema'
\* detection; in phase 1 there are at most 3 detections.
C30_DetectionsByPhase ==
  /\ phase = 2 => detections = <<BullousDetection>>
  /\ phase = 1 => Len(detections) <= 3

\* C23: once a fetch has completed and loading is false, the analysis shown is the
\* response to the latest request, which was issued for the current time point and
\* view mode, and no request is still pending.
C23_ShownAnalysisIsCurrent ==
  (~panelLoading /\ \E k \in 1..Len(fetches) : ~fetches[k].pending) =>
    /\ panelAnalysis.req = Len(fetches)
    /\ panelAnalysis.point = currentPointId
    /\ panelAnalysis.mode = viewMode
    /\ \A k \in 1..Len(fetches) : ~fetches[k].pending

\* C24: whenever no hand is being tracked -- the last processed frame found no hand,
\* or control is disabled and the control-loop effect has run for it -- every
\* OrbitControls instance has the enableDamping value it had before gesture control
\* took it over, which is true for both instances (LungVisualizer sets it when it
\* creates the controls).
C24_DampingRestored ==
  (\/ lastOp.op = "frame" /\ lastOp.processed /\ lastOp.det.kind = "nohand"
   \/ ~enabled /\ ~effectEnabled)
    => \A inst \in Instances : controls[inst].present => controls[inst].enableDamping

\* the camera of the target controls is where the last frame found it, up to the
\* distance limits that controls.update() enforces on every call
CameraAsBeforeFrame ==
  /\ Target.radius = Max(Target.minDistance, Min(Target.maxDistance, lastOp.radius))
  /\ Target.theta = lastOp.theta
  /\ Target.phi = lastOp.phi

\* C25: the first processed frame after hand control was stopped and enabled again,
\* if it shows a hand, leaves the camera where it was.
C25_RestartFrameKeepsCamera ==
  (ProcessedFrame /\ lastOp.det.kind = "hand" /\ lastOp.stopped) => CameraAsBeforeFrame

\* C28: a processed frame that shows a pinch after an open hand, or an open hand
\* after a pinch, leaves the camera where it was; a frame changes the distance only
\* when it and the processed frame before it both showed a pinch, and the angles
\* only when both showed an open hand.
C28_SwitchFrameKeepsCamera ==
  (ProcessedFrame /\ lastOp.det.kind = "hand") =>
    /\ (lastOp.gesture # lastGesture /\ lastOp.gesture # "none") => CameraAsBeforeFrame
    /\ Target.radius # Max(Target.minDistance, Min(Target.maxDistance, lastOp.radius)) =>
         lastOp.gesture = "pinch" /\ lastGesture = "pinch"
    /\ (Target.theta # lastOp.theta \/ Target.phi # lastOp.phi) =>
         lastOp.gesture = "open" /\ lastGesture = "open"

\* a pinch frame as the processed frame after an open-hand frame, on the controls
\* with the default limits: the camera is where the frame found it
C28_Witness ==
  /\ PinchFrame
  /\ frames = 2
  /\ lastOp.gesture = "open"
  /\ lastCentroid = NullCentroid
  /\ Target.maxDistance = Infinity
  /\ Target.radius = lastOp.radius

\* C26: once the controller has unmounted, no landmarker that init() created is left
\* open: neither the one in landmarkerRef nor one that init() created and dropped.
C26_LandmarkerClosedAfterUnmount ==
  ~mounted => landmarker # "open" /\ initPc # "dropped"

\* C27: a step that changes the active label of a visualizer leaves that visualizer's
\* camera pose and the OrbitControls instance in externalControlsRef as they were.
C27_LabelChangeKeepsCamera ==
  [][\A inst \in Instances :
       activeLabel'[inst] # activeLabel[inst] =>
         /\ controls'[inst].id = controls[inst].id
         /\ controls'[inst].radius = controls[inst].radius
         /\ controls'[inst].theta = controls[inst].theta
         /\ controls'[inst].phi = controls[inst].phi]_vars

(***************************************************************************)
(* Specifications: one per component, the other components at rest.        *)
(***************************************************************************)
InitLayersSpec    == InitApp /\ InitChat /\ InitDisplay /\ InitScene /\ InitHand /\ InitMore
InitChatSpec      == InitApp /\ InitChat /\ InitDisplay /\ InitScene /\ InitHand /\ InitMore
InitFindingsSpec  == InitApp /\ InitChat /\ InitFindings /\ InitScene /\ InitHand /\ InitMore
InitHighlightSpec == InitApp /\ InitChat /\ InitHighlight /\ InitScene /\ InitHand /\ InitMore
InitSceneSpec     == InitApp /\ InitChat /\ InitDisplay /\ InitScene /\ InitHand /\ InitMore
InitWorkflowSpec  == InitApp /\ InitChat /\ InitDisplay /\ InitScene /\ InitHand /\ InitMore
InitServiceSpec   == InitApp /\ InitChat /\ InitDisplay /\ InitScene /\ InitHand /\ InitFlow /\ InitServiceAny /\ InitScan /\ InitGuide /\ InitPanel
InitScanSpec      == InitApp /\ InitChat /\ InitDisplay /\ InitScene /\ InitHand /\ InitMore
InitGuideSpec     == InitApp /\ InitChat /\ InitDisplay /\ InitScene /\ InitHand /\ InitFlow /\ InitService /\ InitScan /\ InitGuideAny /\ InitPanel
InitPanelSpec     == InitApp /\ InitChat /\ InitDisplay /\ InitScene /\ InitHand /\ InitFlow /\ InitService /\ InitScan /\ InitGuide /\ InitPanelAny
InitViewSpec      == InitApp /\ InitChat /\ InitDisplay /\ InitSceneBuilt /\ InitHand /\ InitMore
InitHandSpec      == InitApp /\ InitChat /\ InitDisplay /\ InitScene /\ InitHandAny /\ InitMore

SpecLayers    == InitLayersSpec /\ [][NextApp]_vars
SpecChat      == InitChatSpec /\ [][NextChat]_vars
\* setTimeout(..., 1500) is never cleared: a pending reply callback runs
SpecChatLive  == InitChatSpec /\ [][NextChatLive]_vars /\ WF_vars(AiReply)
SpecFindings  == InitFindingsSpec /\ [][NextDisplay]_vars
SpecHighlight == InitHighlightSpec /\ [][NextDisplay]_vars
SpecScene     == InitSceneSpec /\ [][NextScene]_vars
SpecHand      == InitHandSpec /\ [][NextHand]_vars

SpecScan      == InitScanSpec /\ [][NextScan]_vars
SpecGuide     == InitGuideSpec /\ [][NextGuide]_vars
SpecService   == InitServiceSpec /\ [][NextService]_vars
SpecPanel     == InitPanelSpec /\ [][NextPanel]_vars
SpecView      == InitViewSpec /\ [][NextView]_vars
\* the timer of handleUpload is never cleared, so it fires
SpecWorkflow  == InitWorkflowSpec /\ [][NextFlow]_vars /\ WF_vars(UploadTimerFires)

====
